---- MODULE Spec2Model ----
(***************************************************************************)
(* Area estimation and density engine of the restoration dashboard        *)
(* (src/app_indicadores.py).  The two loaded tables are the state; every   *)
(* core function is an operator computed as the code computes it, and an   *)
(* action applies it to the tables and records what it returned.           *)
(*                                                                         *)
(* Text is a tuple of one-character strings, so that lower(), replace(),   *)
(* split() and the substring test are computed, not assumed.  A cell is a  *)
(* record [t, n, s]: a number (t = "num"), a text (t = "str") or a missing *)
(* value (t = "nan").  Numbers are fixed point with scale Escala: an area  *)
(* of 0.10 ha is 1000, a height of 0.5 m is 5000.                          *)
(***************************************************************************)
EXTENDS Integers, Sequences, FiniteSets, TLC

VARIABLES df_carac, df_inv, chamada, resultado

vars == <<df_carac, df_inv, chamada, resultado>>

\* fixed-point scale of the numeric cells: 10000 units per hectare (m2)
Escala == 10000

----------------------------------------------------------------------------
(* cells *)

Num(n) == [t |-> "num", n |-> n, s |-> << >>]

Str(s) == [t |-> "str", n |-> 0, s |-> s]

NaN == [t |-> "nan", n |-> 0, s |-> << >>]

isna(c) == c.t = "nan"

None == << >>

----------------------------------------------------------------------------
(* text primitives of Python / pandas *)

Minusculas ==
    [c \in {"A","B","C","D","E","F","G","H","I","J","K","L","M",
            "N","O","P","Q","R","S","T","U","V","W","X","Y","Z"} |->
       CASE c = "A" -> "a" [] c = "B" -> "b" [] c = "C" -> "c" [] c = "D" -> "d"
         [] c = "E" -> "e" [] c = "F" -> "f" [] c = "G" -> "g" [] c = "H" -> "h"
         [] c = "I" -> "i" [] c = "J" -> "j" [] c = "K" -> "k" [] c = "L" -> "l"
         [] c = "M" -> "m" [] c = "N" -> "n" [] c = "O" -> "o" [] c = "P" -> "p"
         [] c = "Q" -> "q" [] c = "R" -> "r" [] c = "S" -> "s" [] c = "T" -> "t"
         [] c = "U" -> "u" [] c = "V" -> "v" [] c = "W" -> "w" [] c = "X" -> "x"
         [] c = "Y" -> "y" [] c = "Z" -> "z"]

\* str.lower()
lower(s) == [i \in 1..Len(s) |-> IF s[i] \in DOMAIN Minusculas THEN Minusculas[s[i]] ELSE s[i]]

\* str.replace(ch, '')
RECURSIVE remover(_, _)
remover(s, ch) ==
    IF s = << >> THEN << >>
    ELSE IF Head(s) = ch THEN remover(Tail(s), ch)
         ELSE <<Head(s)>> \o remover(Tail(s), ch)

\* sub in s
contem(s, sub) ==
    \E i \in 0..(Len(s) - Len(sub)) : SubSeq(s, i + 1, i + Len(sub)) = sub

\* s.split(sep): the list of tokens, never empty
RECURSIVE dividir(_, _, _)
dividir(s, sep, atual) ==
    IF s = << >> THEN <<atual>>
    ELSE IF Head(s) = sep THEN <<atual>> \o dividir(Tail(s), sep, << >>)
         ELSE dividir(Tail(s), sep, Append(atual, Head(s)))

split(s, sep) == dividir(s, sep, << >>)

Digitos == <<"0","1","2","3","4","5","6","7","8","9">>

RECURSIVE int_para_texto(_)
int_para_texto(n) ==
    IF n < 10 THEN <<Digitos[n + 1]>>
    ELSE int_para_texto(n \div 10) \o <<Digitos[(n % 10) + 1]>>

\* str(x) / astype(str): a missing value becomes the text 'nan'
str(c) ==
    IF c.t = "str" THEN c.s
    ELSE IF c.t = "nan" THEN <<"n","a","n">>
    ELSE int_para_texto(c.n)

\* Series.str.lower(): missing stays missing
str_lower(c) == IF c.t = "str" THEN Str(lower(c.s)) ELSE c

\* Series.str.contains(pat, na=False) for a literal pattern
str_contains(c, pat) == c.t = "str" /\ contem(c.s, pat)

\* Series.str.contains(pat, case=False, na=False) for a literal pattern
str_contains_nocase(c, pat) == c.t = "str" /\ contem(lower(c.s), lower(pat))

\* pd.to_numeric(errors='coerce')
to_numeric(c) == IF c.t = "num" THEN c ELSE NaN

----------------------------------------------------------------------------
(* tables: [columns |-> <<name, ...>>, rows |-> <<[name -> cell], ...>>] *)

len(df) == Len(df.rows)

coluna(df, col) == [i \in 1..len(df) |-> df.rows[i][col]]

tem_coluna(df, col) == \E i \in 1..Len(df.columns) : df.columns[i] = col

\* Series.unique(): missing values included
unique(df, col) == {df.rows[i][col] : i \in 1..len(df)}

\* Series.count() in place of nunique(): rows counted, not distinct values
conta_linhas(df, col) == Cardinality({i \in 1..len(df) : ~isna(df.rows[i][col])})

\* Series.nunique(): missing values excluded
nunique(df, col) == Cardinality({c \in unique(df, col) : ~isna(c)})

----------------------------------------------------------------------------
(* encontrar_coluna *)

\* the name compared as it is written
sem_normalizar(nome) == nome

normalizar(nome) == remover(remover(lower(nome), " "), "_")

RECURSIVE primeira_coluna(_, _, _)
primeira_coluna(cols, nome, i) ==
    IF i > Len(cols) THEN None
    ELSE IF contem(normalizar(cols[i]), normalizar(nome)) THEN cols[i]
         ELSE primeira_coluna(cols, nome, i + 1)

\* column-major search: the first column that contains any of the names
RECURSIVE procurar_por_coluna(_, _, _)
procurar_por_coluna(cols, nomes_possiveis, i) ==
    IF i > Len(cols) THEN None
    ELSE IF \E j \in 1..Len(nomes_possiveis) :
               contem(normalizar(cols[i]), normalizar(nomes_possiveis[j]))
         THEN cols[i]
         ELSE procurar_por_coluna(cols, nomes_possiveis, i + 1)

RECURSIVE procurar(_, _, _)
achada_ou_proxima(col, cols, nomes_possiveis, j) ==
    IF col # None THEN col ELSE procurar(cols, nomes_possiveis, j + 1)

procurar(cols, nomes_possiveis, j) ==
    IF j > Len(nomes_possiveis) THEN None
    ELSE achada_ou_proxima(primeira_coluna(cols, nomes_possiveis[j], 1), cols, nomes_possiveis, j)

encontrar_coluna(df, nomes_possiveis) == procurar(df.columns, nomes_possiveis, 1)

----------------------------------------------------------------------------
(* column names and candidate lists used by the core *)

cod_parc == <<"c","o","d","_","p","a","r","c">>

cod_prop == <<"c","o","d","_","p","r","o","p">>

nomes_parcela ==
    << cod_parc,
       <<"c","o","d","i","g","o","_","p","a","r","c","e","l","a">>,
       <<"p","a","r","c","e","l","a">> >>

nomes_area == << <<"a","r","e","a","_","h","a">>, <<"a","r","e","a">> >>

nomes_propriedade ==
    << cod_prop,
       <<"c","o","d","i","g","o","_","p","r","o","p","r","i","e","d","a","d","e">>,
       <<"p","r","o","p","r","i","e","d","a","d","e">> >>

nomes_ut ==
    << <<"u","t">>,
       <<"u","n","i","d","a","d","e","_","t","r","a","b","a","l","h","o">>,
       <<"U","T">> >>

nomes_tecnica ==
    << <<"t","e","c","n","i","c","a","_","a","m">>,
       <<"t","e","c","n","i","c","a">>,
       <<"m","e","t","o","d","o">> >>

nomes_plaqueta ==
    << <<"p","l","a","q","u","e","t","a">>, <<"p","l","a","q">>, <<"i","d">> >>

nomes_especies ==
    << <<"e","s","p","e","c","i","e","s">>, <<"e","s","p","e","c","i","e">>,
       <<"s","p","e","c","i","e","s">>, <<"s","p">> >>

nomes_origem ==
    << <<"o","r","i","g","e","m">>, <<"o","r","i","g","i","n">>,
       <<"p","r","o","c","e","d","e","n","c","i","a">> >>

nomes_idade ==
    << <<"i","d","a","d","e">>, <<"a","g","e">>,
       <<"c","l","a","s","s","_","i","d","a","d","e">> >>

nomes_altura ==
    << <<"h","t">>, <<"a","l","t","u","r","a">>,
       <<"h","e","i","g","h","t">>, <<"h">> >>

censo == <<"c","e","n","s","o">>

parcela == <<"p","a","r","c","e","l","a">>

plot == <<"p","l","o","t">>

----------------------------------------------------------------------------
(* what the area functions return: (area_ha, metodo).  The method text is  *)
(* a list of parts joined by " + "; a part is a template with the numbers  *)
(* formatted into it.                                                      *)

Descricao(texto, n1, n2) ==
    <<[prefixo |-> "", texto |-> texto, n1 |-> n1, n2 |-> n2]>>

Prefixar(prefixo, metodo) ==
    [k \in 1..Len(metodo) |-> [metodo[k] EXCEPT !.prefixo = prefixo]]

Retorno(area, metodo) == [area |-> area, metodo |-> metodo]

RECURSIVE somar(_, _)
somar(f, S) ==
    IF S = {} THEN 0
    ELSE LET x == CHOOSE y \in S : TRUE
         IN  f[x] + somar(f, S \ {x})

----------------------------------------------------------------------------
(* calcular_area_parcelas_tradicional *)

parcelas_contadas(num_parcelas) ==
    IF num_parcelas > 0
    THEN Retorno((num_parcelas * 100 * Escala) \div 10000,
                 Descricao("Parcelas ({n1} parcelas × 100m²)", num_parcelas, 0))
    ELSE Retorno(0, Descricao("Parcelas (sem dados válidos)", 0, 0))

parcelas_por_coluna(df, col_parc) ==
    IF col_parc = None
    THEN Retorno(0, Descricao("Parcelas (coluna não encontrada)", 0, 0))
    ELSE parcelas_contadas(nunique(df, col_parc))

calcular_area_parcelas_tradicional(df_inv_filtered) ==
    IF len(df_inv_filtered) = 0 THEN Retorno(0, Descricao("Parcelas (sem dados)", 0, 0))
    ELSE parcelas_por_coluna(df_inv_filtered, encontrar_coluna(df_inv_filtered, nomes_parcela))

----------------------------------------------------------------------------------------------------------------------------------------
(* calcular_area_censo_inventario *)

\* the plot code column after astype(str)
parc_str(df, col_parc) == [i \in 1..len(df) |-> str(df.rows[i][col_parc])]

\* the sample that decides the format: the plot code of the first row
formato_prop_ut(df, col_parc) ==
    contem(IF len(df) > 0 THEN str(df.rows[1][col_parc]) ELSE << >>, <<"_">>)

\* str.split('_').str[0] and .str[1] of one plot code
chave_dividida(partes) ==
    <<Str(partes[1]), IF Len(partes) >= 2 THEN Str(partes[2]) ELSE NaN>>

\* the dedicated columns after astype(str)
chaves_de_colunas(df, col_prop, col_ut) ==
    IF col_prop # None /\ col_ut # None
    THEN [ok |-> TRUE,
          chaves |-> [i \in 1..len(df) |->
                        <<Str(str(df.rows[i][col_prop])), Str(str(df.rows[i][col_ut]))>>]]
    ELSE [ok |-> FALSE, chaves |-> << >>]

\* the columns cod_prop_extraido and ut_extraido, row by row
chaves_extraidas(df, col_parc) ==
    IF formato_prop_ut(df, col_parc)
    THEN [ok |-> TRUE,
          chaves |-> [i \in 1..len(df) |-> chave_dividida(split(str(df.rows[i][col_parc]), "_"))]]
    ELSE chaves_de_colunas(df, encontrar_coluna(df, nomes_propriedade),
                           encontrar_coluna(df, nomes_ut))

\* groupby([...]): the groups; a row with a missing key belongs to none
grupos(chaves) ==
    {chaves[i] : i \in {j \in DOMAIN chaves : ~isna(chaves[j][1]) /\ ~isna(chaves[j][2])}}

\* agg 'sum' in place of 'first': every stem row of the group adds its area
agg_soma(df, chaves, g, col, i) ==
    [t |-> "num", s |-> << >>,
     n |-> LET I == {j \in 1..len(df) : chaves[j] = g /\ ~isna(df.rows[j][col])}
               RECURSIVE soma(_)
               soma(S) == IF S = {} THEN 0
                          ELSE LET x == CHOOSE y \in S : TRUE
                               IN  df.rows[x][col].n + soma(S \ {x})
           IN  soma(I)]

\* agg 'first': the first non-missing value of the group, in row order
RECURSIVE agg_first(_, _, _, _, _)
agg_first(df, chaves, g, col, i) ==
    IF i > len(df) THEN NaN
    ELSE IF chaves[i] = g /\ ~isna(df.rows[i][col]) THEN df.rows[i][col]
         ELSE agg_first(df, chaves, g, col, i + 1)

\* agg 'count' of the plot code column (never missing after astype(str))
agg_count(df, chaves, g) == Cardinality({i \in 1..len(df) : chaves[i] = g})

\* Series.sum(): missing values skipped
valor(c) == IF isna(c) THEN 0 ELSE c.n

\* df_unico: one row per group, and the totals taken from it
retorno_censo(df_unico) ==
    Retorno(somar([g \in DOMAIN df_unico |-> valor(df_unico[g].area)], DOMAIN df_unico),
            Descricao("Censo ({n1} UTs, {n2} indivíduos)",
                      Cardinality(DOMAIN df_unico),
                      somar([g \in DOMAIN df_unico |-> df_unico[g].n], DOMAIN df_unico)))

desduplicar(df, chaves, col_area) ==
    retorno_censo([g \in grupos(chaves) |->
                     [area |-> agg_first(df, chaves, g, col_area, 1),
                      n    |-> agg_count(df, chaves, g)]])

\* an unresolved format answered with the plain sum of the area column
censo_sem_formato(df, ext, col_area) ==
    IF ~ext.ok
    THEN Retorno(agg_soma(df, [i \in 1..len(df) |-> 0], 0, col_area, 1).n,
                 Descricao("Censo - não foi possível identificar cod_prop e UT", 0, 0))
    ELSE Retorno(agg_soma(df, [i \in 1..len(df) |-> 0], 0, col_area, 1).n,
                 Descricao("Censo ({n1} UTs, {n2} indivíduos)", 0, len(df)))

censo_por_chaves(df, ext, col_area) ==
    IF ~ext.ok
    THEN Retorno(0, Descricao("Censo - não foi possível identificar cod_prop e UT", 0, 0))
    ELSE desduplicar(df, ext.chaves, col_area)

censo_por_colunas(df, col_parc, col_area) ==
    IF col_parc = None \/ col_area = None
    THEN Retorno(0, Descricao("Censo - colunas não encontradas", 0, 0))
    ELSE censo_por_chaves(df, chaves_extraidas(df, col_parc), col_area)

calcular_area_censo_inventario(df_inv_filtered) ==
    IF len(df_inv_filtered) = 0
    THEN Retorno(0, Descricao("Censo (sem dados de inventário)", 0, 0))
    ELSE censo_por_colunas(df_inv_filtered,
                           encontrar_coluna(df_inv_filtered, nomes_parcela),
                           encontrar_coluna(df_inv_filtered, nomes_area))

----------------------------------------------------------------------------
(* filtrar_inventario_por_propriedades *)

RECURSIVE selecionar(_, _, _)
selecionar(linhas, manter, i) ==
    IF i > Len(linhas) THEN << >>
    ELSE IF manter[i] THEN <<linhas[i]>> \o selecionar(linhas, manter, i + 1)
         ELSE selecionar(linhas, manter, i + 1)

\* df_trabalho: the copy whose plot code column went through astype(str)
copia_parc_str(df, col_parc) ==
    [i \in 1..len(df) |-> [df.rows[i] EXCEPT ![col_parc] = Str(str(@))]]

\* prop_temp of one row
prop_temp(linha, formato, col_parc, col_prop) ==
    IF formato THEN split(linha[col_parc].s, "_")[1] ELSE str(linha[col_prop])

filtrar_por_prop_temp(df_trabalho, formato, col_parc, col_prop, propriedades_str) ==
    selecionar(df_trabalho,
               [i \in 1..Len(df_trabalho) |->
                  lower(prop_temp(df_trabalho[i], formato, col_parc, col_prop)) \in propriedades_str],
               1)

filtrar_com_colunas(df, propriedades, col_parc, formato, col_prop) ==
    IF ~formato /\ col_prop = None THEN df
    ELSE [columns |-> df.columns,
          rows    |-> filtrar_por_prop_temp(copia_parc_str(df, col_parc), formato, col_parc,
                                            col_prop, {lower(str(p)) : p \in propriedades})]

filtrar_com_parcela(df, propriedades, col_parc) ==
    IF col_parc = None THEN df
    ELSE filtrar_com_colunas(df, propriedades, col_parc, formato_prop_ut(df, col_parc),
                             encontrar_coluna(df, nomes_propriedade))

filtrar_inventario_por_propriedades(df_inv_arg, propriedades) ==
    filtrar_com_parcela(df_inv_arg, propriedades, encontrar_coluna(df_inv_arg, nomes_parcela))

----------------------------------------------------------------------------
(* calcular_area_amostrada *)

\* df_carac_copy: the technique column lowercased
carac_copy(df, tecnica_col) ==
    [columns |-> df.columns,
     rows    |-> [i \in 1..len(df) |-> [df.rows[i] EXCEPT ![tecnica_col] = str_lower(@)]]]

tem_censo(tecnicas_unicas) == \E t \in tecnicas_unicas : contem(str(t), censo)

tem_parcelas(tecnicas_unicas) ==
    \E t \in tecnicas_unicas : contem(str(t), parcela) \/ contem(str(t), plot)

linha_censo(r, tecnica_col) == str_contains(r[tecnica_col], censo)

dados_censo(df_copy, tecnica_col) ==
    [columns |-> df_copy.columns,
     rows    |-> selecionar(df_copy.rows,
                            [i \in 1..len(df_copy) |-> linha_censo(df_copy.rows[i], tecnica_col)], 1)]

\* the plot partition taken by its own tag instead of by complement
dados_com_tag_parcela(df_copy, tecnica_col) ==
    [columns |-> df_copy.columns,
     rows    |-> selecionar(df_copy.rows,
                            [i \in 1..len(df_copy) |->
                               \/ str_contains(df_copy.rows[i][tecnica_col], parcela)
                               \/ str_contains(df_copy.rows[i][tecnica_col], plot)], 1)]

dados_parcelas(df_copy, tecnica_col) ==
    [columns |-> df_copy.columns,
     rows    |-> selecionar(df_copy.rows,
                            [i \in 1..len(df_copy) |-> ~linha_censo(df_copy.rows[i], tecnica_col)], 1)]

\* dados['cod_prop'].unique() if 'cod_prop' in dados.columns else []
props_de(dados) == IF tem_coluna(dados, cod_prop) THEN unique(dados, cod_prop) ELSE {}

\* the census half of the mixed case: the returns it contributes (none or one)
censo_se_houver(df_inv_censo) ==
    IF len(df_inv_censo) > 0 THEN <<calcular_area_censo_inventario(df_inv_censo)>> ELSE << >>

parte_censo_props(dados, props_censo, df_inv_filtered) ==
    IF len(dados) > 0 /\ props_censo # {}
    THEN censo_se_houver(filtrar_inventario_por_propriedades(df_inv_filtered, props_censo))
    ELSE << >>

parte_censo(dados, df_inv_filtered) == parte_censo_props(dados, props_de(dados), df_inv_filtered)

\* the plot half of the mixed case
parcelas_se_houver(df_inv_parcelas) ==
    IF len(df_inv_parcelas) > 0
    THEN <<calcular_area_parcelas_tradicional(df_inv_parcelas)>>
    ELSE << >>

parte_parcelas_props(dados, props_parcelas, df_inv_filtered) ==
    IF len(dados) > 0 /\ props_parcelas # {}
    THEN parcelas_se_houver(filtrar_inventario_por_propriedades(df_inv_filtered, props_parcelas))
    ELSE << >>

parte_parcelas(dados, df_inv_filtered) ==
    parte_parcelas_props(dados, props_de(dados), df_inv_filtered)

area_da_parte(p) == IF p = << >> THEN 0 ELSE p[1].area

metodo_da_parte(prefixo, p) == IF p = << >> THEN << >> ELSE Prefixar(prefixo, p[1].metodo)

metodo_final(metodos_usados) ==
    IF metodos_usados # << >> THEN metodos_usados ELSE Descricao("Misto (sem dados)", 0, 0)

\* the two parts averaged instead of added
media_partes(pc, pp) ==
    Retorno((area_da_parte(pc) + area_da_parte(pp)) \div 2,
            metodo_final(metodo_da_parte("Censo: ", pc) \o metodo_da_parte("Parcelas: ", pp)))

somar_partes(pc, pp) ==
    Retorno(area_da_parte(pc) + area_da_parte(pp),
            metodo_final(metodo_da_parte("Censo: ", pc) \o metodo_da_parte("Parcelas: ", pp)))

area_mista(df_copy, tecnica_col, df_inv_filtered) ==
    somar_partes(parte_censo(dados_censo(df_copy, tecnica_col), df_inv_filtered),
                 parte_parcelas(dados_parcelas(df_copy, tecnica_col), df_inv_filtered))

\* the dispatch with the census algorithm as the default
area_por_tecnica_padrao_censo(com_censo, com_parcelas, df_carac_copy, tecnica_col, df_inv_filtered) ==
    IF com_censo /\ ~com_parcelas THEN calcular_area_censo_inventario(df_inv_filtered)
    ELSE IF com_parcelas /\ ~com_censo THEN calcular_area_parcelas_tradicional(df_inv_filtered)
    ELSE IF com_censo /\ com_parcelas THEN area_mista(df_carac_copy, tecnica_col, df_inv_filtered)
    ELSE calcular_area_censo_inventario(df_inv_filtered)

\* the dispatch on the technique values present
area_por_tecnica(com_censo, com_parcelas, df_carac_copy, tecnica_col, df_inv_filtered) ==
    IF com_censo /\ ~com_parcelas THEN calcular_area_censo_inventario(df_inv_filtered)
    ELSE IF com_parcelas /\ ~com_censo THEN calcular_area_parcelas_tradicional(df_inv_filtered)
    ELSE IF com_censo /\ com_parcelas THEN area_mista(df_carac_copy, tecnica_col, df_inv_filtered)
    ELSE calcular_area_parcelas_tradicional(df_inv_filtered)

area_com_tecnicas(tecnicas_unicas, df_carac_copy, tecnica_col, df_inv_filtered) ==
    area_por_tecnica(tem_censo(tecnicas_unicas), tem_parcelas(tecnicas_unicas),
                     df_carac_copy, tecnica_col, df_inv_filtered)

area_com_copia(df_carac_copy, tecnica_col, df_inv_filtered) ==
    area_com_tecnicas(unique(df_carac_copy, tecnica_col), df_carac_copy, tecnica_col,
                      df_inv_filtered)

area_com_coluna(df_carac_filtered, tecnica_col, df_inv_filtered) ==
    IF tecnica_col = None \/ len(df_carac_filtered) = 0
    THEN calcular_area_parcelas_tradicional(df_inv_filtered)
    ELSE area_com_copia(carac_copy(df_carac_filtered, tecnica_col), tecnica_col, df_inv_filtered)

calcular_area_amostrada(df_carac_filtered, df_inv_filtered) ==
    IF len(df_carac_filtered) = 0 /\ len(df_inv_filtered) = 0
    THEN Retorno(0, Descricao("Sem dados", 0, 0))
    ELSE area_com_coluna(df_carac_filtered,
                         encontrar_coluna(df_carac_filtered, nomes_tecnica),
                         df_inv_filtered)

----------------------------------------------------------------------------
(* calcular_densidade_geral and calcular_densidade_regenerantes *)

\* a density num / area kept as the pair it is computed from; 0.0 is Zero
Razao(num, area) == [num |-> num, area |-> area]

Zero == [num |-> 0, area |-> 0]

RetornoDensidade(densidade, cabecalho, metodo) ==
    [densidade |-> densidade, cabecalho |-> cabecalho, metodo |-> metodo]

\* "+" in metodo: only the join of two parts puts a plus sign in the text
tem_mais(metodo) == Len(metodo) >= 2

\* the division made whatever the area is
geral_sem_guarda(num_individuos, ret) ==
    RetornoDensidade(Razao(num_individuos, ret.area),
                     IF tem_mais(ret.metodo) THEN "Método Misto: " ELSE "", ret.metodo)

geral_por_area(num_individuos, ret) ==
    IF ret.area > 0
    THEN RetornoDensidade(Razao(num_individuos, ret.area),
                          IF tem_mais(ret.metodo) THEN "Método Misto: " ELSE "", ret.metodo)
    ELSE RetornoDensidade(Zero, "", ret.metodo)

geral_com_plaqueta(inv, carac, plaqueta_col) ==
    IF plaqueta_col = None
    THEN RetornoDensidade(Zero, "", Descricao("Coluna plaqueta não encontrada", 0, 0))
    ELSE geral_por_area(nunique(inv, plaqueta_col), calcular_area_amostrada(carac, inv))

calcular_densidade_geral(inv, carac) ==
    IF len(inv) = 0 \/ len(carac) = 0
    THEN RetornoDensidade(Zero, "", Descricao("Sem dados", 0, 0))
    ELSE geral_com_plaqueta(inv, carac, encontrar_coluna(inv, nomes_plaqueta))

morto == <<"M","o","r","t","o">>

morta == <<"M","o","r","t","a">>

nativa == <<"N","a","t","i","v","a">>

jovem == <<"J","o","v","e","m">>

\* 0.499 at the scale of the numeric cells
limite_altura == 4990

\* astype(str).str.contains(pat, case=False, na=False) on one cell
texto_contem(c, pat) == contem(lower(str(c)), lower(pat))

manter_linhas(df, manter) == [columns |-> df.columns, rows |-> selecionar(df.rows, manter, 1)]

\* 1. rows whose species text says dead are removed
filtro_mortos_col(df, especies_col) ==
    IF especies_col = None THEN df
    ELSE manter_linhas(df, [i \in 1..len(df) |->
                              ~(\/ texto_contem(df.rows[i][especies_col], morto)
                                \/ texto_contem(df.rows[i][especies_col], morta))])

filtro_mortos(df) == filtro_mortos_col(df, encontrar_coluna(df, nomes_especies))

\* 2. rows of native origin are kept
filtro_origem_col(df, origem_col) ==
    IF origem_col = None THEN df
    ELSE manter_linhas(df, [i \in 1..len(df) |-> texto_contem(df.rows[i][origem_col], nativa)])

filtro_origem(df) == filtro_origem_col(df, encontrar_coluna(df, nomes_origem))

\* 3. rows of the young age class are kept
filtro_idade_col(df, idade_col) ==
    IF idade_col = None THEN df
    ELSE manter_linhas(df, [i \in 1..len(df) |-> texto_contem(df.rows[i][idade_col], jovem)])

filtro_idade(df) == filtro_idade_col(df, encontrar_coluna(df, nomes_idade))

\* the cut strictly above 0.5, without the margin
altura_a_partir_de_meio(c) == ~isna(to_numeric(c)) /\ to_numeric(c).n > 5000

altura_suficiente(c) == ~isna(to_numeric(c)) /\ to_numeric(c).n >= limite_altura

\* 4. rows whose numeric height reaches the limit are kept
filtro_altura_col(df, ht_col) ==
    IF ht_col = None THEN df
    ELSE manter_linhas(df, [i \in 1..len(df) |-> altura_suficiente(df.rows[i][ht_col])])

filtro_altura(df) == filtro_altura_col(df, encontrar_coluna(df, nomes_altura))

\* num_regenerantes: distinct tags, or rows when there is no tag column
contar_regenerantes(df_filtrado, plaqueta_col) ==
    IF plaqueta_col # None THEN nunique(df_filtrado, plaqueta_col) ELSE len(df_filtrado)

\* the division made whatever the area is
regenerantes_sem_guarda(num_regenerantes, ret) == Razao(num_regenerantes, ret.area)

regenerantes_por_area(num_regenerantes, ret) ==
    IF ret.area > 0 THEN Razao(num_regenerantes, ret.area) ELSE Zero

\* the area taken from the rows the filters kept, not from the table passed in
densidade_sobre_area_filtrada(df_filtrado, inv, carac) ==
    IF len(df_filtrado) = 0 THEN Zero
    ELSE regenerantes_por_area(
             contar_regenerantes(df_filtrado, encontrar_coluna(df_filtrado, nomes_plaqueta)),
             calcular_area_amostrada(carac, df_filtrado))

densidade_dos_filtrados(df_filtrado, inv, carac) ==
    IF len(df_filtrado) = 0 THEN Zero
    ELSE regenerantes_por_area(
             contar_regenerantes(df_filtrado, encontrar_coluna(df_filtrado, nomes_plaqueta)),
             calcular_area_amostrada(carac, inv))

calcular_densidade_regenerantes(inv, carac) ==
    IF len(inv) = 0 \/ len(carac) = 0 THEN Zero
    ELSE densidade_dos_filtrados(filtro_altura(filtro_idade(filtro_origem(filtro_mortos(inv)))),
                                 inv, carac)

----------------
(* the loaded tables: bounded inputs *)

MaxInvRows == 2

MaxCaracRows == 2

area_ha == <<"a","r","e","a","_","h","a">>

plaqueta == <<"p","l","a","q","u","e","t","a">>

ut == <<"u","t">>

tecnica_am == <<"t","e","c","n","i","c","a","_","a","m">>

Tabela(cols, linhas) == [columns |-> cols, rows |-> linhas]

SeqAte(S, n) == UNION {[1..k -> S] : k \in 0..n}

\* plot codes as the cleaning pass leaves them: PROP_UT, or a bare code
CodigosParcela == { <<"A","_","1">>, <<"A","_","2">>, <<"B","_","1">>, <<"B">> }

CodigosPropriedade == { <<"A">>, <<"B">> }

\* 0.10 ha and 0.07 ha
AreasUT == {1000, 700}

Tecnicas == { Str(<<"C","e","n","s","o">>), Str(<<"P","a","r","c","e","l","a","s">>),
              Str(<<"P","l","o","t">>), Str(<<"C","e","n","s","u","s">>),
              Str(<<"C","e","n","s","o"," ","e"," ","p","a","r","c","e","l","a","s">>), NaN }

\* inventory schemas: PROP_UT codes; no area column; no plot-code column;
\* dedicated property and work-unit columns
LinhasInvParcArea ==
    { (cod_parc :> Str(p)) @@ (area_ha :> Num(a)) @@ (plaqueta :> Num(1)) :
        p \in CodigosParcela, a \in AreasUT }

LinhasInvSemArea ==
    { (cod_parc :> Str(p)) @@ (plaqueta :> Num(1)) : p \in CodigosParcela }

LinhasInvSemParc ==
    { (area_ha :> Num(a)) @@ (plaqueta :> Num(1)) : a \in AreasUT }

LinhasInvPropUT ==
    { (cod_parc :> Str(pa[1])) @@ (cod_prop :> Str(c)) @@ (ut :> Str(u))
        @@ (area_ha :> Num(pa[2])) @@ (plaqueta :> Num(1)) :
        pa \in { <<<<"B">>, 1000>>, <<<<"B">>, 700>>, <<<<"A","_","1">>, 1000>> },
        c \in CodigosPropriedade, u \in { <<"1">>, <<"2">> } }

InventariosArea ==
    { Tabela(<<cod_parc, area_ha, plaqueta>>, l) : l \in SeqAte(LinhasInvParcArea, MaxInvRows) }
    \cup { Tabela(<<cod_parc, plaqueta>>, l) : l \in SeqAte(LinhasInvSemArea, MaxInvRows) }
    \cup { Tabela(<<area_ha, plaqueta>>, l) : l \in SeqAte(LinhasInvSemParc, MaxInvRows) }
    \cup { Tabela(<<cod_parc, cod_prop, ut, area_ha, plaqueta>>, l) :
             l \in SeqAte(LinhasInvPropUT, MaxInvRows) }

LinhaInv(p, a) == (cod_parc :> Str(p)) @@ (area_ha :> Num(a)) @@ (plaqueta :> Num(1))

\* 18 stem rows over 17 distinct plot codes P_1 .. P_17 of one property
Inventario17Parcelas ==
    Tabela(<<cod_parc, area_ha, plaqueta>>,
           [i \in 1..18 |-> LinhaInv(<<"P","_">> \o int_para_texto(((i - 1) % 17) + 1), 100)])

InventariosBase ==
    { Tabela(<<cod_parc, area_ha, plaqueta>>, << >>),
      Tabela(<<cod_parc, area_ha, plaqueta>>,
             << LinhaInv(<<"A","_","1">>, 1000), LinhaInv(<<"B","_","1">>, 700) >>),
      Tabela(<<cod_parc, area_ha, plaqueta>>,
             << LinhaInv(<<"A","_","1">>, 1000), LinhaInv(<<"A","_","1">>, 1000),
                LinhaInv(<<"A","_","2">>, 700), LinhaInv(<<"B","_","1">>, 1000) >>),
      Tabela(<<cod_parc, area_ha, plaqueta>>,
             << LinhaInv(<<"B">>, 1000), LinhaInv(<<"A","_","1">>, 700) >>),
      Tabela(<<cod_parc, plaqueta>>,
             << (cod_parc :> Str(<<"A","_","1">>)) @@ (plaqueta :> Num(1)),
                (cod_parc :> Str(<<"B","_","1">>)) @@ (plaqueta :> Num(1)) >>),
      Tabela(<<cod_parc, cod_prop, ut, area_ha, plaqueta>>,
             << (cod_parc :> Str(<<"B">>)) @@ (cod_prop :> Str(<<"A">>)) @@ (ut :> Str(<<"1">>))
                  @@ (area_ha :> Num(1000)) @@ (plaqueta :> Num(1)),
                (cod_parc :> Str(<<"B">>)) @@ (cod_prop :> Str(<<"B">>)) @@ (ut :> Str(<<"1">>))
                  @@ (area_ha :> Num(700)) @@ (plaqueta :> Num(1)) >>) }

\* characterization schemas: property and technique; no technique column;
\* no cod_prop column
LinhasCarac ==
    { (cod_prop :> Str(c)) @@ (tecnica_am :> t) : c \in CodigosPropriedade, t \in Tecnicas }

LinhasCaracSemTecnica == { (cod_prop :> Str(c)) : c \in CodigosPropriedade }

LinhasCaracSemProp == { (tecnica_am :> t) : t \in Tecnicas }

CaracterizacoesArea ==
    { Tabela(<<cod_prop, tecnica_am>>, l) : l \in SeqAte(LinhasCarac, MaxCaracRows) }
    \cup { Tabela(<<cod_prop>>, l) : l \in SeqAte(LinhasCaracSemTecnica, MaxCaracRows) }
    \cup { Tabela(<<tecnica_am>>, l) : l \in SeqAte(LinhasCaracSemProp, MaxCaracRows) }

LinhaCarac(c, t) == (cod_prop :> Str(c)) @@ (tecnica_am :> Str(t))

CaracterizacoesBase ==
    { Tabela(<<cod_prop, tecnica_am>>, << >>),
      Tabela(<<cod_prop, tecnica_am>>, << LinhaCarac(<<"A">>, <<"C","e","n","s","o">>) >>),
      Tabela(<<cod_prop, tecnica_am>>,
             << LinhaCarac(<<"A">>, <<"P","a","r","c","e","l","a","s">>) >>),
      Tabela(<<cod_prop, tecnica_am>>,
             << LinhaCarac(<<"A">>, <<"C","e","n","s","o">>),
                LinhaCarac(<<"B">>, <<"P","a","r","c","e","l","a","s">>) >>) }

\* inventories for the densities: stems with a tag, a species, an origin, an
\* age class and a height
MaxDensRows == 2

especies == <<"e","s","p","e","c","i","e","s">>

origem == <<"o","r","i","g","e","m">>

idade == <<"i","d","a","d","e">>

ht == <<"h","t">>

ColunasDens == <<cod_parc, area_ha, plaqueta, especies, origem, idade, ht>>

Ipe == Str(<<"I","p","e"," ","a","m","a","r","e","l","o">>)

\* one stem that passes every filter, and stems that fail exactly one:
\* dead, exotic, adult, 0.40 m high, height missing
Perfis ==
    { <<Ipe, Str(nativa), Str(jovem), Num(5000)>>,
      <<Str(morto), Str(nativa), Str(jovem), Num(5000)>>,
      <<Ipe, Str(<<"E","x","o","t","i","c","a">>), Str(jovem), Num(5000)>>,
      <<Ipe, Str(nativa), Str(<<"A","d","u","l","t","o">>), Num(5000)>>,
      <<Ipe, Str(nativa), Str(jovem), Num(4000)>>,
      <<Ipe, Str(nativa), Str(jovem), NaN>> }

\* tag 1 stands in work unit A_1 of 0.10 ha, tag 2 in work unit A_2 of 0.50 ha
LinhaDens(tag, perfil) ==
    (cod_parc :> Str(<<"A","_">> \o int_para_texto(tag)))
      @@ (area_ha :> Num(IF tag = 1 THEN 1000 ELSE 5000))
      @@ (plaqueta :> Num(tag))
      @@ (especies :> perfil[1]) @@ (origem :> perfil[2])
      @@ (idade :> perfil[3]) @@ (ht :> perfil[4])

LinhasDens == {LinhaDens(tag, perfil) : tag \in 1..2, perfil \in Perfis}

\* the columns an inventory may lack
Esquemas ==
    { {}, {especies}, {origem}, {idade}, {ht}, {ht, area_ha}, {plaqueta}, {plaqueta, idade} }

SemColunas(linha, faltam) == [c \in (DOMAIN linha) \ faltam |-> linha[c]]

TabelaSem(linhas, faltam) ==
    Tabela(SelectSeq(ColunasDens, LAMBDA c : c \notin faltam),
           [i \in 1..Len(linhas) |-> SemColunas(linhas[i], faltam)])

InventariosDens ==
    {TabelaSem(l, faltam) : l \in SeqAte(LinhasDens, MaxDensRows), faltam \in Esquemas}

CaracterizacoesDens ==
    { Tabela(<<cod_prop, tecnica_am>>, << >>),
      Tabela(<<cod_prop, tecnica_am>>, << LinhaCarac(<<"A">>, <<"C","e","n","s","o">>) >>),
      Tabela(<<cod_prop, tecnica_am>>,
             << LinhaCarac(<<"A">>, <<"P","a","r","c","e","l","a","s">>) >>),
      Tabela(<<cod_prop, tecnica_am>>,
             << LinhaCarac(<<"A">>, <<"C","e","n","s","o">>),
                LinhaCarac(<<"A">>, <<"P","a","r","c","e","l","a","s">>) >>) }

\* property P1: work unit UT1 of 0.10 ha with 50 stems over 40 tags, work unit
\* UT2 of 0.07 ha with 30 stems over 25 tags, technique censo for both
LinhaP1(i) ==
    IF i <= 50
    THEN (cod_parc :> Str(<<"P","1","_","u","t","1">>)) @@ (area_ha :> Num(1000))
           @@ (plaqueta :> Num(((i - 1) % 40) + 1))
    ELSE (cod_parc :> Str(<<"P","1","_","u","t","2">>)) @@ (area_ha :> Num(700))
           @@ (plaqueta :> Num(40 + ((i - 51) % 25) + 1))

InventarioP1 == Tabela(<<cod_parc, area_ha, plaqueta>>, [i \in 1..80 |-> LinhaP1(i)])

CaracterizacaoP1 ==
    Tabela(<<cod_prop, ut, tecnica_am>>,
           << (cod_prop :> Str(<<"P","1">>)) @@ (ut :> Str(<<"U","t","1">>))
                @@ (tecnica_am :> Str(<<"C","e","n","s","o">>)),
              (cod_prop :> Str(<<"P","1">>)) @@ (ut :> Str(<<"U","t","2">>))
                @@ (tecnica_am :> Str(<<"C","e","n","s","o">>)) >>)

----------------------------------------------------------------------------
(* the tables a call works on *)

\* no copy taken: what is written to the working table is written to the
\* argument
sem_copy(df, df_trabalho) == df_trabalho

\* df.copy(): what is written to the working table leaves the argument as
\* it was
copy(df, df_trabalho) == df

\* df_carac_copy of calcular_area_amostrada once the technique column is
\* lowercased; no working table before the early return
df_carac_copy_com_coluna(df_carac_filtered, tecnica_col) ==
    IF tecnica_col = None \/ len(df_carac_filtered) = 0 THEN df_carac_filtered
    ELSE carac_copy(df_carac_filtered, tecnica_col)

df_carac_copy(df_carac_filtered, df_inv_filtered) ==
    IF len(df_carac_filtered) = 0 /\ len(df_inv_filtered) = 0 THEN df_carac_filtered
    ELSE df_carac_copy_com_coluna(df_carac_filtered,
                                  encontrar_coluna(df_carac_filtered, nomes_tecnica))

cod_prop_extraido == <<"c","o","d","_","p","r","o","p","_","e","x","t","r","a","i","d","o">>

ut_extraido == <<"u","t","_","e","x","t","r","a","i","d","o">>

\* df_trabalho with the two extracted columns, when the format gives them
com_extraidos(df, linhas, ext) ==
    IF ~ext.ok THEN [columns |-> df.columns, rows |-> linhas]
    ELSE [columns |-> df.columns \o <<cod_prop_extraido, ut_extraido>>,
          rows    |-> [i \in 1..Len(linhas) |->
                         linhas[i] @@ (cod_prop_extraido :> ext.chaves[i][1])
                                   @@ (ut_extraido :> ext.chaves[i][2])]]

\* df_trabalho of calcular_area_censo_inventario: the plot code as text and
\* the extracted columns
df_trabalho_censo_colunas(df, col_parc, col_area) ==
    IF col_parc = None \/ col_area = None THEN df
    ELSE com_extraidos(df, copia_parc_str(df, col_parc), chaves_extraidas(df, col_parc))

df_trabalho_censo(df_inv_filtered) ==
    IF len(df_inv_filtered) = 0 THEN df_inv_filtered
    ELSE df_trabalho_censo_colunas(df_inv_filtered,
                                   encontrar_coluna(df_inv_filtered, nomes_parcela),
                                   encontrar_coluna(df_inv_filtered, nomes_area))

----------------------------------------------------------------------------

(* the state machine: a call applies one function to the loaded tables *)

SemResultado == [area |-> 0, metodo |-> << >>]

InitArea ==
    /\ \/ df_inv \in InventariosArea /\ df_carac \in CaracterizacoesBase
       \/ df_inv \in InventariosBase /\ df_carac \in CaracterizacoesArea
       \/ df_inv = Inventario17Parcelas /\ df_carac \in CaracterizacoesBase
    /\ chamada = "nenhuma"
    /\ resultado = SemResultado

CalcularAreaAmostrada ==
    /\ chamada' = "calcular_area_amostrada"
    /\ resultado' = calcular_area_amostrada(df_carac, df_inv)
    /\ df_carac' = copy(df_carac, df_carac_copy(df_carac, df_inv))
    /\ UNCHANGED df_inv

CalcularAreaCenso ==
    /\ chamada' = "calcular_area_censo_inventario"
    /\ resultado' = calcular_area_censo_inventario(df_inv)
    /\ df_inv' = copy(df_inv, df_trabalho_censo(df_inv))
    /\ UNCHANGED df_carac

CalcularAreaParcelas ==
    /\ chamada' = "calcular_area_parcelas_tradicional"
    /\ resultado' = calcular_area_parcelas_tradicional(df_inv)
    /\ UNCHANGED <<df_carac, df_inv>>

NextArea == CalcularAreaAmostrada \/ CalcularAreaCenso \/ CalcularAreaParcelas

SpecArea == InitArea /\ [][NextArea]_vars

InitDens ==
    /\ \/ df_inv \in InventariosDens /\ df_carac \in CaracterizacoesDens
       \/ df_inv = InventarioP1 /\ df_carac = CaracterizacaoP1
    /\ chamada = "nenhuma"
    /\ resultado = SemResultado

CalcularDensidadeGeral ==
    /\ chamada' = "calcular_densidade_geral"
    /\ resultado' = calcular_densidade_geral(df_inv, df_carac)
    /\ UNCHANGED <<df_carac, df_inv>>

CalcularDensidadeRegenerantes ==
    /\ chamada' = "calcular_densidade_regenerantes"
    /\ resultado' = [densidade |-> calcular_densidade_regenerantes(df_inv, df_carac)]
    /\ UNCHANGED <<df_carac, df_inv>>

NextDens == CalcularDensidadeGeral \/ CalcularDensidadeRegenerantes

SpecDens == InitDens /\ [][NextDens]_vars

----------------------------------------------------------------------------
(* the densities on tables that leave little or nothing to count           *)

MaxVazioRows == 2

\* a stem that passes every filter and one that is 0.40 m high
PerfisVazio ==
    { <<Ipe, Str(nativa), Str(jovem), Num(5000)>>,
      <<Ipe, Str(nativa), Str(jovem), Num(4000)>> }

LinhasVazio == {LinhaDens(tag, perfil) : tag \in 1..2, perfil \in PerfisVazio}

\* every column; no height and no area; no tag
EsquemasVazio == { {}, {ht, area_ha}, {plaqueta} }

InventariosVazio ==
    {TabelaSem(l, faltam) : l \in SeqAte(LinhasVazio, MaxVazioRows), faltam \in EsquemasVazio}

InitDensVazio ==
    /\ df_inv \in InventariosVazio
    /\ df_carac \in CaracterizacoesDens
    /\ chamada = "nenhuma"
    /\ resultado = SemResultado

SpecDensVazio == InitDensVazio /\ [][NextDens]_vars

----------------------------------------------------------------------------

(* calcular_indicadores_propriedade: canopy cover, regenerant density,     *)
(* richness and status of one property                                     *)

cobertura_nativa == <<"c","o","b","e","r","t","u","r","a","_","n","a","t","i","v","a">>

metodo_restauracao == <<"m","e","t","o","d","o","_","r","e","s","t","a","u","r","a","c","a","o">>

meta == <<"m","e","t","a">>

nomes_parcela_ou_plot == << cod_parc, parcela, plot >>

nomes_cobertura == << <<"c","o","b","e","t","u","r","a","_","n","a","t","i","v","a">>, cobertura_nativa, <<"c","o","p","a","_","n","a","t","i","v","a">> >>

nomes_metodo == << metodo_restauracao, <<"m","e","t","o","d","o">>, <<"t","e","c","n","i","c","a","_","r","e","s","t","a","u","r","a","c","a","o">> >>

nomes_altura_riqueza == << <<"h","t">>, <<"a","l","t","u","r","a">>, <<"h","e","i","g","h","t">> >>

nomes_meta == << meta, <<"m","e","t","a","_","r","i","q","u","e","z","a">>, <<"r","i","q","u","e","z","a","_","m","e","t","a">>, <<"m","e","t","a","_","e","s","p","e","c","i","e","s">> >>

assistida == <<"a","s","s","i","s","t","i","d","a">>

\* pd.DataFrame(): no column, no row
DataFrameVazio == [columns |-> << >>, rows |-> << >>]

\* str.startswith(p)
startswith(s, p) == Len(s) >= Len(p) /\ SubSeq(s, 1, Len(p)) = p

\* df[df['cod_prop'] == cod]
linhas_da_propriedade(df, cod) ==
    manter_linhas(df, [i \in 1..len(df) |-> df.rows[i][cod_prop] = cod])

carac_da_propriedade(cod, df_caracterizacao) ==
    IF tem_coluna(df_caracterizacao, cod_prop)
    THEN linhas_da_propriedade(df_caracterizacao, cod)
    ELSE DataFrameVazio

\* the next attempt is made only when the one before left no row
se_vazio(df, outro) == IF len(df) = 0 THEN outro ELSE df

inv_por_parcela(cod, df, cod_parc_col) ==
    IF cod_parc_col = None THEN DataFrameVazio
    ELSE se_vazio(
           se_vazio(
             manter_linhas(df, [i \in 1..len(df) |->
                 startswith(str(df.rows[i][cod_parc_col]), str(cod) \o <<"_">>)]),
             manter_linhas(df, [i \in 1..len(df) |->
                 contem(str(df.rows[i][cod_parc_col]), str(cod))])),
           manter_linhas(df, [i \in 1..len(df) |->
               str(df.rows[i][cod_parc_col]) = str(cod)]))

inv_da_propriedade(cod, df_inventario) ==
    IF tem_coluna(df_inventario, cod_prop)
    THEN linhas_da_propriedade(df_inventario, cod)
    ELSE inv_por_parcela(cod, df_inventario,
                         encontrar_coluna(df_inventario, nomes_parcela_ou_plot))

\* a value num / den that is not a density: a mean, a percentage
Fracao(num, den) == [num |-> num, den |-> den]

\* the sum and the count behind Series.mean(): missing values skipped
RECURSIVE soma_numerica(_, _, _)
soma_numerica(df, col, i) ==
    IF i > len(df) THEN 0
    ELSE valor(to_numeric(df.rows[i][col])) + soma_numerica(df, col, i + 1)

conta_numerica(df, col) ==
    Cardinality({i \in 1..len(df) : ~isna(to_numeric(df.rows[i][col]))})

\* a mean of at most 1 is a fraction and becomes a percentage; no value, 0
cobertura_percentual(soma, n) ==
    IF n = 0 THEN Fracao(0, 1)
    ELSE IF soma <= n * Escala THEN Fracao(soma * 100, n * Escala)
         ELSE Fracao(soma, n * Escala)

cobertura_da_coluna(df, cobertura_col) ==
    IF cobertura_col # None /\ len(df) > 0
    THEN cobertura_percentual(soma_numerica(df, cobertura_col, 1),
                              conta_numerica(df, cobertura_col))
    ELSE Fracao(0, 1)

cobertura_copa(df_carac_prop) ==
    cobertura_da_coluna(df_carac_prop, encontrar_coluna(df_carac_prop, nomes_cobertura))

\* cobertura_copa >= 80
cobertura_adequada(cobertura) == cobertura.num >= 80 * cobertura.den

metodo_da_coluna(df, metodo_col) ==
    IF /\ metodo_col # None
       /\ len(df) > 0
       /\ contem(lower(str(df.rows[1][metodo_col])), assistida)
    THEN "Assistida"
    ELSE "Ativa"

detectar_metodo(df_carac_prop) ==
    metodo_da_coluna(df_carac_prop, encontrar_coluna(df_carac_prop, nomes_metodo))

\* the other way round: 1500 for the active method
meta_densidade_trocada(metodo) == IF metodo = "Assistida" THEN 1333 ELSE 1500

meta_densidade(metodo) == IF metodo = "Assistida" THEN 1500 ELSE 1333

\* densidade >= meta_densidade, the density being num / (area / Escala)
densidade_adequada(densidade, meta_dens) ==
    densidade.area > 0 /\ densidade.num * Escala >= meta_dens * densidade.area

\* 0.5 at the scale of the numeric cells
limite_riqueza == 5000

\* the cut at the density margin in place of the strict one
altura_com_margem(c) == ~isna(to_numeric(c)) /\ to_numeric(c).n >= limite_altura

altura_acima(c) == ~isna(to_numeric(c)) /\ to_numeric(c).n > limite_riqueza

especies_validas(df, especies_col) ==
    manter_linhas(df, [i \in 1..len(df) |->
                         ~(\/ texto_contem(df.rows[i][especies_col], morto)
                           \/ texto_contem(df.rows[i][especies_col], morta))])

nativas_col(df, origem_col) ==
    IF origem_col = None THEN df
    ELSE manter_linhas(df, [i \in 1..len(df) |-> texto_contem(df.rows[i][origem_col], nativa)])

nativas(df_especies_validas) ==
    nativas_col(df_especies_validas, encontrar_coluna(df_especies_validas, nomes_origem))

nativas_altura_col(df, ht_col) ==
    IF ht_col = None THEN df
    ELSE manter_linhas(df, [i \in 1..len(df) |-> altura_acima(df.rows[i][ht_col])])

nativas_altura(df_nativas) ==
    nativas_altura_col(df_nativas, encontrar_coluna(df_nativas, nomes_altura_riqueza))

riquezas_das_nativas(df_nativas, especies_col) ==
    [observada |-> nunique(nativas_altura(df_nativas), especies_col),
     nativas   |-> nunique(df_nativas, especies_col)]

riquezas_col(df_inv_prop, especies_col) ==
    IF especies_col # None /\ len(df_inv_prop) > 0
    THEN riquezas_das_nativas(nativas(especies_validas(df_inv_prop, especies_col)),
                              especies_col)
    ELSE [observada |-> 0, nativas |-> 0]

riquezas(df_inv_prop) ==
    riquezas_col(df_inv_prop, encontrar_coluna(df_inv_prop, nomes_especies))

\* the richness target when the inventory gives none
meta_padrao == 30

\* dropna().iloc[0] of the numeric column
RECURSIVE primeiro_numerico(_, _, _)
primeiro_numerico(df, col, i) ==
    IF i > len(df) THEN NaN
    ELSE IF ~isna(to_numeric(df.rows[i][col])) THEN df.rows[i][col]
         ELSE primeiro_numerico(df, col, i + 1)

meta_ou_padrao(c) == IF isna(c) THEN meta_padrao * Escala ELSE c.n

meta_da_coluna(df, meta_riqueza_col) ==
    IF meta_riqueza_col # None /\ len(df) > 0
    THEN meta_ou_padrao(primeiro_numerico(df, meta_riqueza_col, 1))
    ELSE meta_padrao * Escala

\* the richness target, at the scale of the numeric cells
meta_riqueza(df_inv_prop) ==
    meta_da_coluna(df_inv_prop, encontrar_coluna(df_inv_prop, nomes_meta))

\* riqueza_observada >= meta_riqueza
riqueza_adequada(riqueza_observada, meta_riq) == riqueza_observada * Escala >= meta_riq

\* sum([...]) of three booleans
status_count(eixos) == Cardinality({i \in DOMAIN eixos : eixos[i]})

\* one tier too generous: two axes already give the top status
status_generoso(n) ==
    IF n >= 2 THEN "Excelente"
    ELSE IF n = 1 THEN "Bom"
    ELSE "Regular"

status_geral(n) ==
    IF n = 3 THEN "Excelente"
    ELSE IF n = 2 THEN "Bom"
    ELSE IF n = 1 THEN "Regular"
    ELSE "Crítico"

resultado_da_propriedade(cod, cobertura, metodo, densidade, riq, meta_riq) ==
    [cod_prop               |-> cod,
     cobertura_copa         |-> cobertura,
     metodo_restauracao     |-> metodo,
     densidade_regenerantes |-> densidade,
     meta_densidade         |-> meta_densidade(metodo),
     densidade_adequada     |-> densidade_adequada(densidade, meta_densidade(metodo)),
     riqueza_observada      |-> riq.observada,
     riqueza_nativas        |-> riq.nativas,
     meta_riqueza           |-> meta_riq,
     riqueza_adequada       |-> riqueza_adequada(riq.observada, meta_riq),
     status_geral           |->
         status_geral(status_count(
             << cobertura_adequada(cobertura),
                densidade_adequada(densidade, meta_densidade(metodo)),
                riqueza_adequada(riq.observada, meta_riq) >>))]

indicadores_das_tabelas(cod, df_carac_prop, df_inv_prop) ==
    resultado_da_propriedade(cod,
                             cobertura_copa(df_carac_prop),
                             detectar_metodo(df_carac_prop),
                             calcular_densidade_regenerantes(df_inv_prop, df_carac_prop),
                             riquezas(df_inv_prop),
                             meta_riqueza(df_inv_prop))

calcular_indicadores_propriedade(cod, df_caracterizacao, df_inventario) ==
    indicadores_das_tabelas(cod,
                            carac_da_propriedade(cod, df_caracterizacao),
                            inv_da_propriedade(cod, df_inventario))

\* the properties calcular_indicadores_restauracao loops over: the property
\* codes of the characterization and the prefixes of the plot codes
propriedades_da_carac(df_caracterizacao) ==
    IF tem_coluna(df_caracterizacao, cod_prop)
    THEN {c \in unique(df_caracterizacao, cod_prop) : ~isna(c)}
    ELSE {}

propriedades_do_inventario(df_inventario, cod_parc_col) ==
    IF cod_parc_col = None THEN {}
    ELSE {Str(split(str(c), "_")[1]) :
            c \in {d \in unique(df_inventario, cod_parc_col) :
                     ~isna(d) /\ contem(str(d), <<"_">>)}}

propriedades(df_caracterizacao, df_inventario) ==
    propriedades_da_carac(df_caracterizacao)
      \cup propriedades_do_inventario(df_inventario,
                                      encontrar_coluna(df_inventario, nomes_parcela_ou_plot))

----------------------------------------------------------------------------
(* the tables of the restoration indicators: bounded inputs *)

MaxIndicRows == 2

ColunasCaracIndic == <<cod_prop, tecnica_am, cobertura_nativa, metodo_restauracao>>

\* cover 0.85 (a fraction), 85 and 79 (percentages) or missing; method
\* active, assisted in two spellings, or missing
PerfisCarac ==
    { <<Num(8500), Str(<<"A","t","i","v","a">>)>>,
      <<Num(850000), Str(<<"A","s","s","i","s","t","i","d","a">>)>>,
      <<Num(790000), Str(<<"N","a","t","u","r","a","l"," ","a","s","s","i","s","t","i","d","a">>)>>,
      <<NaN, NaN>> }

LinhaCaracIndic(p, perfil) ==
    (cod_prop :> Str(p)) @@ (tecnica_am :> Str(<<"C","e","n","s","o">>))
      @@ (cobertura_nativa :> perfil[1]) @@ (metodo_restauracao :> perfil[2])

LinhasCaracIndic == {LinhaCaracIndic(p, perfil) : p \in {<<"A">>, <<"B">>}, perfil \in PerfisCarac}

EsquemasCaracIndic == { {}, {cobertura_nativa}, {metodo_restauracao}, {cod_prop} }

TabelaDe(colunas, linhas, faltam) ==
    Tabela(SelectSeq(colunas, LAMBDA c : c \notin faltam),
           [i \in 1..Len(linhas) |-> SemColunas(linhas[i], faltam)])

CaracterizacoesIndic ==
    {TabelaDe(ColunasCaracIndic, l, faltam) :
       l \in SeqAte(LinhasCaracIndic, MaxIndicRows), faltam \in EsquemasCaracIndic}

ColunasInvIndic == <<cod_prop, cod_parc, area_ha, plaqueta, especies, origem, idade, ht, meta>>

Jatoba == Str(<<"J","a","t","o","b","a">>)

\* a native young stem of property A in work unit A_1, whose area is a (in
\* units of 1/Escala ha), with a richness target m
LinhaIndic(a, tag, esp, h, m) ==
    (cod_prop :> Str(<<"A">>)) @@ (cod_parc :> Str(<<"A","_","1">>)) @@ (area_ha :> Num(a))
      @@ (plaqueta :> Num(tag)) @@ (especies :> esp) @@ (origem :> Str(nativa))
      @@ (idade :> Str(jovem)) @@ (ht :> h) @@ (meta :> m)

\* heights 0.40, 0.4995, 0.50, 0.60, missing and not a number
AlturasIndic == {Num(4000), Num(4995), Num(5000), Num(6000), NaN, Str(<<"a","l","t","o">>)}

LinhasIndic ==
    {LinhaIndic(7, 1, Ipe, h, Num(Escala)) : h \in AlturasIndic}
      \cup {LinhaIndic(7, 2, Ipe, h, Num(Escala)) : h \in {Num(4995), Num(5000)}}
      \cup {LinhaIndic(7, 2, Jatoba, h, Num(Escala)) : h \in {Num(5000), Num(6000)}}

EsquemasInvIndic == { {}, {cod_prop}, {ht}, {meta} }

InventariosIndic ==
    {TabelaDe(ColunasInvIndic, l, faltam) :
       l \in SeqAte(LinhasIndic, MaxIndicRows), faltam \in EsquemasInvIndic}

\* one stem on 0.0007 ha (1428.6 / ha) meeting a target of 1 species; two
\* stems of two species on 0.0007 ha (2857.1 / ha) with no target given; one
\* stem on 0.0010 ha (1000 / ha) meeting a target of 1 species
InventariosFixos ==
    { TabelaDe(ColunasInvIndic, <<LinhaIndic(7, 1, Ipe, Num(6000), Num(Escala))>>, {}),
      TabelaDe(ColunasInvIndic, <<LinhaIndic(7, 1, Ipe, Num(6000), Num(Escala))>>, {cod_prop}),
      TabelaDe(ColunasInvIndic,
               <<LinhaIndic(7, 1, Ipe, Num(6000), NaN), LinhaIndic(7, 2, Jatoba, Num(6000), NaN)>>,
               {}),
      TabelaDe(ColunasInvIndic, <<LinhaIndic(10, 1, Ipe, Num(6000), Num(Escala))>>, {}) }

CaracterizacoesFixas ==
    { TabelaDe(ColunasCaracIndic, <<LinhaCaracIndic(<<"A">>, <<Num(8500), Str(<<"A","t","i","v","a">>)>>)>>, {}),
      TabelaDe(ColunasCaracIndic,
               <<LinhaCaracIndic(<<"A">>, <<Num(790000), Str(<<"A","s","s","i","s","t","i","d","a">>)>>)>>, {}) }

InitIndic ==
    /\ \/ df_inv \in InventariosIndic /\ df_carac \in CaracterizacoesFixas
       \/ df_inv \in InventariosFixos /\ df_carac \in CaracterizacoesIndic
    /\ chamada = "nenhuma"
    /\ resultado = SemResultado

\* one turn of the loop of calcular_indicadores_restauracao
CalcularIndicadoresPropriedade ==
    \E prop \in propriedades(df_carac, df_inv) :
       /\ chamada' = "calcular_indicadores_propriedade"
       /\ resultado' = calcular_indicadores_propriedade(prop, df_carac, df_inv)
       /\ UNCHANGED <<df_carac, df_inv>>

NextIndic == CalcularIndicadoresPropriedade

SpecIndic == InitIndic /\ [][NextIndic]_vars

----------------------------------------------------------------------------
(* calcular_fitossociologia_censo and calcular_fitossociologia_parcelas:   *)
(* the species table before it is renamed and rounded for display.  Basal  *)
(* areas are in units of pi/4 cm2 (pi/4 * 10^-4 m2), diameters in whole    *)
(* centimetres; a quotient of floats is the fraction it is computed from,  *)
(* and a zero denominator stands for NaN.                                  *)

dap == <<"d","a","p">>

nomes_especie == << <<"e","s","p","e","c","i","e">>, <<"e","s","p","e","c","i","e","s">>, <<"s","p","e","c","i","e","s">>, <<"s","p">> >>

nomes_dap == << dap, <<"d","a","p","_","c","m">>, <<"d","i","a","m","e","t","e","r">> >>

\* a + b
mais(f, g) == Fracao(f.num * g.den + g.num * f.den, f.den * g.den)

\* f / k
dividido(f, k) == Fracao(f.num, f.den * k)

\* (parte / total) * 100
percentual(parte, total) == Fracao(100 * parte, total)

eh_nan(f) == f.den = 0

\* the ascending order
pode_suceder(a, b) ==
    \/ eh_nan(b)
    \/ /\ ~eh_nan(a)
       /\ IF a.den = b.den THEN a.num <= b.num ELSE a.num * b.den <= b.num * a.den

\* key a may stand before key b when sorting in descending order, missing
\* keys last
pode_preceder(a, b) ==
    \/ eh_nan(b)
    \/ /\ ~eh_nan(a)
       /\ IF a.den = b.den THEN a.num >= b.num ELSE a.num * b.den >= b.num * a.den

\* the rows sorted by ascending key
ordenacoes_crescentes(S, Chave(_)) ==
    {t \in [1..Cardinality(S) -> S] :
       /\ \A i, j \in 1..Cardinality(S) : t[i] = t[j] => i = j
       /\ \A i \in 1..(Cardinality(S) - 1) : pode_suceder(Chave(t[i]), Chave(t[i + 1]))}

\* sort_values(key, ascending=False).reset_index(drop=True): every order of
\* the rows the sort may leave, rows of equal key in any order
ordenacoes(S, Chave(_)) ==
    {t \in [1..Cardinality(S) -> S] :
       /\ \A i, j \in 1..Cardinality(S) : t[i] = t[j] => i = j
       /\ \A i \in 1..(Cardinality(S) - 1) : pode_preceder(Chave(t[i]), Chave(t[i + 1]))}

RECURSIVE valores_numericos(_, _, _)
valores_numericos(df, col, i) ==
    IF i > len(df) THEN << >>
    ELSE IF isna(to_numeric(df.rows[i][col])) THEN valores_numericos(df, col, i + 1)
         ELSE <<df.rows[i][col].n>> \o valores_numericos(df, col, i + 1)

RECURSIVE inserir(_, _)
inserir(x, s) ==
    IF s = << >> THEN <<x>>
    ELSE IF x <= Head(s) THEN <<x>> \o s
         ELSE <<Head(s)>> \o inserir(x, Tail(s))

RECURSIVE ordenar(_)
ordenar(s) == IF s = << >> THEN << >> ELSE inserir(Head(s), ordenar(Tail(s)))

\* Series.median() > limite, on the sorted values; no value, no median
mediana_maior(o, limite) ==
    IF Len(o) = 0 THEN FALSE
    ELSE IF Len(o) % 2 = 1 THEN o[(Len(o) + 1) \div 2] > limite
         ELSE o[Len(o) \div 2] + o[(Len(o) \div 2) + 1] > 2 * limite

\* daps.median() > 100: the diameters are taken as millimetres
daps_em_mm(df, col_dap) ==
    mediana_maior(ordenar(valores_numericos(df, col_dap, 1)), 100 * Escala)

\* (pi * (dap / 2) ** 2) / 10000 of one stem row
area_basal_da_linha(c, mm) ==
    IF isna(to_numeric(c)) THEN NaN
    ELSE IF mm THEN Num(((c.n \div 10) \div Escala) * ((c.n \div 10) \div Escala))
         ELSE Num((c.n \div Escala) * (c.n \div Escala))

area_basal_com_unidade(df, col_dap, mm) ==
    [i \in 1..len(df) |-> area_basal_da_linha(df.rows[i][col_dap], mm)]

\* the column area_basal_m2 of df_trabalho
area_basal_m2(df, col_dap) == area_basal_com_unidade(df, col_dap, daps_em_mm(df, col_dap))

\* the groups of groupby(col_especie): missing species belong to none
especies_de(df, col_especie) == {c \in unique(df, col_especie) : ~isna(c)}

linhas_da_especie(df, col_especie, e) == {i \in 1..len(df) : df.rows[i][col_especie] = e}

\* the groups of groupby([col_especie, col_plaqueta])
individuos(df, col_especie, col_plaqueta) ==
    {<<df.rows[i][col_especie], df.rows[i][col_plaqueta]>> :
       i \in {j \in 1..len(df) : /\ ~isna(df.rows[j][col_especie])
                                 /\ ~isna(df.rows[j][col_plaqueta])}}

linhas_do_individuo(df, col_especie, col_plaqueta, par) ==
    {i \in 1..len(df) : /\ df.rows[i][col_especie] = par[1]
                        /\ df.rows[i][col_plaqueta] = par[2]}

\* Series.sum() over the rows I: missing values skipped
soma_das_linhas(ab, I) == somar([i \in DOMAIN ab |-> valor(ab[i])], I)

\* 'first' in place of 'sum': one stem per individual
primeiro_fuste_por_individuo(df, ab, col_especie, col_plaqueta) ==
    [par \in individuos(df, col_especie, col_plaqueta) |->
       valor(ab[CHOOSE i \in linhas_do_individuo(df, col_especie, col_plaqueta, par) :
                  \A j \in linhas_do_individuo(df, col_especie, col_plaqueta, par) : i <= j])]

\* df_por_individuo: the stems of one tag added up
df_por_individuo(df, ab, col_especie, col_plaqueta) ==
    [par \in individuos(df, col_especie, col_plaqueta) |->
       soma_das_linhas(ab, linhas_do_individuo(df, col_especie, col_plaqueta, par))]

\* size() in place of nunique(): the rows of the species
linhas_por_especie(df, col_especie, col_plaqueta, e) ==
    Cardinality(linhas_da_especie(df, col_especie, e))

\* groupby(col_especie)[col_plaqueta].nunique(): the distinct tags of a species
plaquetas_por_especie(df, col_especie, col_plaqueta, e) ==
    Cardinality({df.rows[i][col_plaqueta] :
                   i \in {j \in linhas_da_especie(df, col_especie, e) :
                            ~isna(df.rows[j][col_plaqueta])}})

Contagem(n, ab) == [num_individuos |-> n, area_basal_total |-> ab]

\* groupby(col_especie) of df_por_individuo: tags counted, areas added
especies_dos_individuos(por_individuo) ==
    [e \in {par[1] : par \in DOMAIN por_individuo} |->
       Contagem(Cardinality({par \in DOMAIN por_individuo : par[1] = e}),
                somar(por_individuo, {par \in DOMAIN por_individuo : par[1] = e}))]

\* no basal area: individuals counted, area_basal_total = 0
especies_sem_area(df, col_especie, col_plaqueta) ==
    [e \in especies_de(df, col_especie) |->
       Contagem(plaquetas_por_especie(df, col_especie, col_plaqueta, e), 0)]

total_individuos(fitossocio) ==
    somar([e \in DOMAIN fitossocio |-> fitossocio[e].num_individuos], DOMAIN fitossocio)

total_area_basal(fitossocio, area_basal_disponivel) ==
    IF area_basal_disponivel
    THEN somar([e \in DOMAIN fitossocio |-> fitossocio[e].area_basal_total], DOMAIN fitossocio)
    ELSE 0

\* what is shown when no table is
SemTabela(mensagem) == [tabela |-> << >>, mensagem |-> mensagem]

ComTabela(t) == [tabela |-> t, mensagem |-> ""]

linha_fito_censo(e, c, N, AB, com_dominancia) ==
    [especie             |-> e,
     num_individuos      |-> c.num_individuos,
     area_basal_total    |-> c.area_basal_total,
     densidade_relativa  |-> percentual(c.num_individuos, N),
     dominancia_relativa |->
         IF com_dominancia THEN percentual(c.area_basal_total, AB) ELSE Fracao(0, 1),
     valor_cobertura     |->
         IF com_dominancia
         THEN dividido(mais(percentual(c.num_individuos, N),
                            percentual(c.area_basal_total, AB)), 2)
         ELSE dividido(percentual(c.num_individuos, N), 2)]

indices_censo(fitossocio, N, AB, area_basal_disponivel) ==
    {ComTabela(t) :
       t \in ordenacoes({linha_fito_censo(e, fitossocio[e], N, AB, area_basal_disponivel /\ AB > 0) :
                           e \in DOMAIN fitossocio},
                        LAMBDA r : r.valor_cobertura)}

tabela_censo(fitossocio, area_basal_disponivel) ==
    indices_censo(fitossocio, total_individuos(fitossocio),
                  total_area_basal(fitossocio, area_basal_disponivel), area_basal_disponivel)

\* without a tag column the fallback aggregates the grouping column itself
\* (and a basal-area column that may not exist) and then calls reset_index():
\* the call raises and the except branch shows the error
censo_com_colunas(df, col_especie, col_dap, col_plaqueta) ==
    IF col_especie = None THEN {SemTabela("Coluna de espécie não encontrada")}
    ELSE IF col_plaqueta = None
    THEN {SemTabela("Erro no cálculo fitossociológico (censo)")}
    ELSE IF col_dap # None
    THEN tabela_censo(especies_dos_individuos(
                          df_por_individuo(df, area_basal_m2(df, col_dap),
                                           col_especie, col_plaqueta)),
                      TRUE)
    ELSE tabela_censo(especies_sem_area(df, col_especie, col_plaqueta), FALSE)

calcular_fitossociologia_censo(df_inventario, df_caracterizacao) ==
    IF len(df_inventario) = 0 THEN {SemTabela("Nenhum dado de inventário disponível")}
    ELSE censo_com_colunas(df_inventario,
                           encontrar_coluna(df_inventario, nomes_especie),
                           encontrar_coluna(df_inventario, nomes_dap),
                           encontrar_coluna(df_inventario, nomes_plaqueta))

\* count() in place of nunique(): the stem rows of the species with a plot code
registros_da_especie(df, col_especie, col_parc, e) ==
    Cardinality({j \in linhas_da_especie(df, col_especie, e) : ~isna(df.rows[j][col_parc])})

\* groupby(col_especie)[col_parc].nunique(): the plots where the species occurs
frequencia_da_especie(df, col_especie, col_parc, e) ==
    Cardinality({df.rows[i][col_parc] :
                   i \in {j \in linhas_da_especie(df, col_especie, e) :
                            ~isna(df.rows[j][col_parc])}})

\* individuos_especies: distinct tags, or rows when there is no tag column
individuos_especies(df, col_especie, col_plaqueta) ==
    [e \in especies_de(df, col_especie) |->
       IF col_plaqueta # None
       THEN plaquetas_por_especie(df, col_especie, col_plaqueta, e)
       ELSE Cardinality(linhas_da_especie(df, col_especie, e))]

\* area_basal_especies: by individual first when there is a tag column
area_basal_especies(df, ab, col_especie, col_plaqueta) ==
    IF col_plaqueta # None
    THEN [e \in {par[1] : par \in individuos(df, col_especie, col_plaqueta)} |->
            somar(df_por_individuo(df, ab, col_especie, col_plaqueta),
                  {par \in individuos(df, col_especie, col_plaqueta) : par[1] = e})]
    ELSE [e \in especies_de(df, col_especie) |->
            soma_das_linhas(ab, linhas_da_especie(df, col_especie, e))]

\* the two merges on the species: a species missing on one side is dropped
combinar(df, col_especie, col_parc, individuos_esp, area_basal_esp) ==
    [e \in (DOMAIN individuos_esp) \cap (DOMAIN area_basal_esp) |->
       [frequencia       |-> frequencia_da_especie(df, col_especie, col_parc, e),
        num_individuos   |-> individuos_esp[e],
        area_basal_total |-> area_basal_esp[e]]]

total_frequencia(fitossocio) ==
    somar([e \in DOMAIN fitossocio |-> fitossocio[e].frequencia], DOMAIN fitossocio)

linha_parcelas(e, c, N, AB, F, com_dominancia) ==
    [especie             |-> e,
     frequencia          |-> c.frequencia,
     num_individuos      |-> c.num_individuos,
     area_basal_total    |-> c.area_basal_total,
     densidade_relativa  |-> percentual(c.num_individuos, N),
     frequencia_relativa |-> percentual(c.frequencia, F),
     dominancia_relativa |->
         IF com_dominancia THEN percentual(c.area_basal_total, AB) ELSE Fracao(0, 1),
     valor_importancia   |->
         IF com_dominancia
         THEN dividido(mais(mais(percentual(c.num_individuos, N),
                                 percentual(c.area_basal_total, AB)),
                            percentual(c.frequencia, F)), 3)
         ELSE dividido(mais(percentual(c.num_individuos, N),
                            percentual(c.frequencia, F)), 2)]

indices_parcelas(fitossocio, N, AB, F) ==
    {ComTabela(t) :
       t \in ordenacoes({linha_parcelas(e, fitossocio[e], N, AB, F, AB > 0) :
                           e \in DOMAIN fitossocio},
                        LAMBDA r : r.valor_importancia)}

tabela_parcelas(fitossocio) ==
    indices_parcelas(fitossocio, total_individuos(fitossocio),
                     total_area_basal(fitossocio, TRUE), total_frequencia(fitossocio))

\* without a diameter column area_basal_especies is a copy of
\* individuos_especies: the second merge renames both num_individuos columns,
\* the total of num_individuos raises and the except branch shows the error
parcelas_com_colunas(df, col_especie, col_dap, col_parc, col_plaqueta) ==
    IF col_especie = None \/ col_parc = None
    THEN {SemTabela("Colunas essenciais não encontradas (espécie ou parcela)")}
    ELSE IF col_dap = None
    THEN {SemTabela("Erro no cálculo fitossociológico (parcelas)")}
    ELSE tabela_parcelas(
             combinar(df, col_especie, col_parc,
                      individuos_especies(df, col_especie, col_plaqueta),
                      area_basal_especies(df, area_basal_m2(df, col_dap),
                                          col_especie, col_plaqueta)))

calcular_fitossociologia_parcelas(df_inventario, df_caracterizacao) ==
    IF len(df_inventario) = 0 THEN {SemTabela("Nenhum dado de inventário disponível")}
    ELSE parcelas_com_colunas(df_inventario,
                              encontrar_coluna(df_inventario, nomes_especie),
                              encontrar_coluna(df_inventario, nomes_dap),
                              encontrar_coluna(df_inventario, nomes_parcela_ou_plot),
                              encontrar_coluna(df_inventario, nomes_plaqueta))

----------------------------------------------------------------------------
(* calcular_indices_diversidade *)

\* math.log of a whole number, at the scale of the numeric cells
log(n) == <<0, 6931, 10986, 13863, 16094, 17918, 19459, 20794>>[n]

\* Series.value_counts(): rows per species, missing species left out
value_counts(df, col_especie) ==
    [e \in especies_de(df, col_especie) |-> Cardinality(linhas_da_especie(df, col_especie, e))]

\* -sum((count / total) * log(count / total)), log(count / total) taken as
\* log(count) - log(total): the value is num / (den * Escala)
indice_shannon(especies_count, total) ==
    Fracao(somar([e \in DOMAIN especies_count |->
                    especies_count[e] * (log(total) - log(especies_count[e]))],
                 DOMAIN especies_count),
           total)

\* 1 - sum((count / total) ** 2)
indice_simpson_diversidade(especies_count, total) ==
    Fracao(total * total
             - somar([e \in DOMAIN especies_count |-> especies_count[e] * especies_count[e]],
                     DOMAIN especies_count),
           total * total)

\* shannon / log(riqueza) whatever the richness: a denominator 0 is a
\* division by zero
equitabilidade_sem_guarda(shannon, riqueza) ==
    Fracao(shannon.num, shannon.den * log(riqueza))

\* shannon / log(riqueza) when riqueza > 1, else 0
equitabilidade(shannon, riqueza) ==
    IF riqueza > 1 THEN Fracao(shannon.num, shannon.den * log(riqueza))
    ELSE Fracao(0, 1)

SemIndices(mensagem) == [indices |-> << >>, mensagem |-> mensagem]

\* the four metrics shown; a division by zero is caught by the except and
\* leaves the error message alone
indices_exibidos(riqueza, shannon, simpson_diversidade, pielou) ==
    IF pielou.den = 0 THEN SemIndices("Erro no cálculo de índices")
    ELSE [indices |-> <<[riqueza |-> riqueza, shannon |-> shannon,
                         simpson_diversidade |-> simpson_diversidade,
                         equitabilidade |-> pielou]>>,
          mensagem |-> ""]

indices_da_contagem(especies_count, total, riqueza) ==
    indices_exibidos(riqueza,
                     indice_shannon(especies_count, total),
                     indice_simpson_diversidade(especies_count, total),
                     equitabilidade(indice_shannon(especies_count, total), riqueza))

indices_das_especies(especies_count) ==
    IF Cardinality(DOMAIN especies_count) = 0 THEN SemIndices("Nenhuma espécie encontrada")
    ELSE indices_da_contagem(especies_count,
                             somar(especies_count, DOMAIN especies_count),
                             Cardinality(DOMAIN especies_count))

indices_com_coluna(df_inventario, col_especie) ==
    IF col_especie = None THEN SemIndices("Coluna de espécie não encontrada")
    ELSE indices_das_especies(value_counts(df_inventario, col_especie))

calcular_indices_diversidade(df_inventario, propriedades_selecionadas) ==
    indices_com_coluna(df_inventario, encontrar_coluna(df_inventario, nomes_especie))

----------------------------------------------------------------------------

(* the working table of the phytosociology functions *)

area_basal_m2_col == <<"a","r","e","a","_","b","a","s","a","l","_","m","2">>

\* df_trabalho with the column area_basal_m2, written when there is a
\* diameter column; no working table when an essential column is missing
df_trabalho_fito_colunas(df, essenciais, col_dap) ==
    IF ~essenciais \/ col_dap = None THEN df
    ELSE [columns |-> df.columns \o <<area_basal_m2_col>>,
          rows    |-> [i \in 1..len(df) |->
                         df.rows[i] @@ (area_basal_m2_col :> area_basal_m2(df, col_dap)[i])]]

df_trabalho_fito_censo(df_inventario) ==
    IF len(df_inventario) = 0 THEN df_inventario
    ELSE df_trabalho_fito_colunas(df_inventario,
                                  encontrar_coluna(df_inventario, nomes_especie) # None,
                                  encontrar_coluna(df_inventario, nomes_dap))

df_trabalho_fito_parcelas(df_inventario) ==
    IF len(df_inventario) = 0 THEN df_inventario
    ELSE df_trabalho_fito_colunas(df_inventario,
                                  /\ encontrar_coluna(df_inventario, nomes_especie) # None
                                  /\ encontrar_coluna(df_inventario, nomes_parcela_ou_plot) # None,
                                  encontrar_coluna(df_inventario, nomes_dap))

----------------------------------------------------------------------------

(* the inventories of the phytosociology pages: bounded inputs *)

MaxFitoRows == 3

ColunasFito == <<cod_parc, plaqueta, especies, dap>>

LinhaFito(p, tag, esp, d) ==
    (cod_parc :> Str(p)) @@ (plaqueta :> tag) @@ (especies :> esp) @@ (dap :> d)

Angico == Str(<<"A","n","g","i","c","o">>)

\* diameters of 10, 15 and 20 cm, and one of 120 read as centimetres or,
\* when the median says so, as millimetres
LinhasFito ==
    { LinhaFito(<<"A","_","1">>, Num(1), Ipe, Num(10 * Escala)),
      LinhaFito(<<"A","_","1">>, Num(1), Ipe, Num(15 * Escala)),
      LinhaFito(<<"A","_","1">>, Num(1), Ipe, Num(20 * Escala)),
      LinhaFito(<<"A","_","2">>, Num(2), Ipe, Num(20 * Escala)),
      LinhaFito(<<"A","_","2">>, Num(3), Jatoba, Num(10 * Escala)),
      LinhaFito(<<"A","_","1">>, Num(3), Jatoba, NaN),
      LinhaFito(<<"A","_","2">>, NaN, Jatoba, Num(20 * Escala)),
      LinhaFito(<<"A","_","1">>, Num(4), Angico, Num(120 * Escala)),
      LinhaFito(<<"A","_","2">>, Num(5), NaN, Num(10 * Escala)) }

EsquemasFito == { {}, {dap}, {plaqueta}, {dap, plaqueta}, {cod_parc}, {especies} }

InventariosFito ==
    {TabelaDe(ColunasFito, l, faltam) :
       l \in SeqAte(LinhasFito, MaxFitoRows), faltam \in EsquemasFito}

InitFito ==
    /\ df_inv \in InventariosFito
    /\ df_carac = Tabela(<<cod_prop, tecnica_am>>, << LinhaCarac(<<"A">>, <<"C","e","n","s","o">>) >>)
    /\ chamada = "nenhuma"
    /\ resultado = SemResultado

CalcularFitossociologiaCenso ==
    /\ chamada' = "calcular_fitossociologia_censo"
    /\ resultado' \in calcular_fitossociologia_censo(df_inv, df_carac)
    /\ df_inv' = copy(df_inv, df_trabalho_fito_censo(df_inv))
    /\ UNCHANGED df_carac

CalcularFitossociologiaParcelas ==
    /\ chamada' = "calcular_fitossociologia_parcelas"
    /\ resultado' \in calcular_fitossociologia_parcelas(df_inv, df_carac)
    /\ df_inv' = copy(df_inv, df_trabalho_fito_parcelas(df_inv))
    /\ UNCHANGED df_carac

NextFito == CalcularFitossociologiaCenso \/ CalcularFitossociologiaParcelas

SpecFito == InitFito /\ [][NextFito]_vars

----------------------------------------------------------------------------
(* the diversity tab: the indices of the filtered inventory *)

CalcularIndicesDiversidade ==
    /\ chamada' = "calcular_indices_diversidade"
    /\ resultado' = calcular_indices_diversidade(df_inv, propriedades_da_carac(df_carac))
    /\ UNCHANGED <<df_carac, df_inv>>

NextDiversidade == CalcularIndicesDiversidade

SpecDiversidade == InitFito /\ [][NextDiversidade]_vars

----------------------------------------------------------------------------

(* a session: every computation of the pages applied, in any order, to the *)
(* same two loaded tables                                                  *)

MaxSessaoRows == 2

ColunasSessao == <<cod_parc, area_ha, plaqueta, especies, origem, idade, ht, dap>>

LinhaSessao(p, a, tag, esp, h, d) ==
    (cod_parc :> Str(p)) @@ (area_ha :> Num(a)) @@ (plaqueta :> Num(tag))
      @@ (especies :> esp) @@ (origem :> Str(nativa)) @@ (idade :> Str(jovem))
      @@ (ht :> Num(h)) @@ (dap :> Num(d))

\* two stems of tag 1 in A_1 (0.10 ha), a low stem in A_2 (0.50 ha), a stem
\* in B_1 (0.07 ha); diameters of 10 cm and 20 cm
LinhasSessao ==
    { LinhaSessao(<<"A","_","1">>, 1000, 1, Ipe, 6000, 100000),
      LinhaSessao(<<"A","_","1">>, 1000, 1, Ipe, 6000, 200000),
      LinhaSessao(<<"A","_","2">>, 5000, 2, Jatoba, 4000, 200000),
      LinhaSessao(<<"B","_","1">>, 700, 3, Ipe, 6000, 100000) }

InventariosSessao ==
    {Tabela(ColunasSessao, l) : l \in SeqAte(LinhasSessao, MaxSessaoRows)}

CaracterizacoesSessao ==
    { Tabela(<<cod_prop, tecnica_am>>, << LinhaCarac(<<"A">>, <<"C","e","n","s","o">>) >>),
      Tabela(<<cod_prop, tecnica_am>>, << LinhaCarac(<<"A">>, <<"P","a","r","c","e","l","a","s">>) >>),
      Tabela(<<cod_prop, tecnica_am>>,
             << LinhaCarac(<<"A">>, <<"C","e","n","s","o">>), LinhaCarac(<<"B">>, <<"P","a","r","c","e","l","a","s">>) >>) }

InitSessao ==
    /\ df_inv \in InventariosSessao
    /\ df_carac \in CaracterizacoesSessao
    /\ chamada = "nenhuma"
    /\ resultado = SemResultado

NextSessao == NextArea \/ NextDens \/ NextIndic \/ NextFito

SpecSessao == InitSessao /\ [][NextSessao]_vars

----------------------------------------------------------------------------

(* encontrar_coluna on its own: the columns of a loaded table and the      *)
(* candidate lists the core passes                                         *)

MaxColunas == 3

\* headers as spreadsheets carry them: exact names, capitals, spaces
NomesDeColuna ==
    { plaqueta, idade, area_ha, ht, <<"I","D"," ","P","l","a","n","t","a">>, <<"P","l","a","q"," ","2">>, <<"C","o","d","_","P","a","r","c">>, <<"U","T">> }

ColunasDistintas ==
    {c \in SeqAte(NomesDeColuna, MaxColunas) : \A a, b \in 1..Len(c) : c[a] = c[b] => a = b}

TabelasDeColunas == {Tabela(c, << >>) : c \in ColunasDistintas}

ListasDeNomes ==
    { nomes_plaqueta, nomes_altura, nomes_area, nomes_parcela,
      nomes_idade, nomes_tecnica, nomes_ut, nomes_especies }

InitColuna ==
    /\ df_inv \in TabelasDeColunas
    /\ df_carac = DataFrameVazio
    /\ chamada = "nenhuma"
    /\ resultado = SemResultado

EncontrarColuna ==
    \E nomes_possiveis \in ListasDeNomes :
       /\ chamada' = "encontrar_coluna"
       /\ resultado' = [nomes |-> nomes_possiveis,
                        coluna |-> encontrar_coluna(df_inv, nomes_possiveis)]
       /\ UNCHANGED <<df_carac, df_inv>>

NextColuna == EncontrarColuna

SpecColuna == InitColuna /\ [][NextColuna]_vars

----------------------------------------------------------------------------

(* properties of the area estimator, stated over the loaded tables *)

MaxCopias == 2

Chamou(f) == chamada = f

\* the inventory with k more copies of row i, placed right after it or at the end
DuplicarApos(df, i, k) ==
    Tabela(df.columns,
           SubSeq(df.rows, 1, i) \o [j \in 1..k |-> df.rows[i]] \o SubSeq(df.rows, i + 1, len(df)))

DuplicarNoFim(df, i, k) == Tabela(df.columns, df.rows \o [j \in 1..k |-> df.rows[i]])

Duplicacoes(df) ==
    {DuplicarApos(df, i, k) : i \in 1..len(df), k \in 1..MaxCopias}
    \cup {DuplicarNoFim(df, i, k) : i \in 1..len(df), k \in 1..MaxCopias}

ColParcela(df) == encontrar_coluna(df, nomes_parcela)

ColArea(df) == encontrar_coluna(df, nomes_area)

ColTecnica(df) == encontrar_coluna(df, nomes_tecnica)

\* how the rows of an inventory name their property and work unit: by a
\* PROP_UT plot code, by dedicated columns, or not at all
FormatoDoInventario(df) ==
    IF len(df) = 0 \/ ColParcela(df) = None THEN "nenhum"
    ELSE IF contem(str(df.rows[1][ColParcela(df)]), <<"_">>) THEN "prop_ut"
    ELSE IF encontrar_coluna(df, nomes_propriedade) # None /\ encontrar_coluna(df, nomes_ut) # None
         THEN "colunas"
    ELSE "nenhum"

\* the (property, work unit) pair of each row, << >> when the row names none
ParesDasLinhas(df) ==
    LET formato  == FormatoDoInventario(df)
        col_parc == ColParcela(df)
        col_prop == encontrar_coluna(df, nomes_propriedade)
        col_ut   == encontrar_coluna(df, nomes_ut)
        partes(i) == split(str(df.rows[i][col_parc]), "_")
    IN  [i \in 1..len(df) |->
           IF formato = "prop_ut"
           THEN IF Len(partes(i)) >= 2 THEN <<partes(i)[1], partes(i)[2]>> ELSE << >>
           ELSE IF formato = "colunas"
           THEN <<str(df.rows[i][col_prop]), str(df.rows[i][col_ut])>>
           ELSE << >>]

\* the area values carried by the rows of each pair
AreasPorPar(df) ==
    LET pares    == ParesDasLinhas(df)
        col_area == ColArea(df)
    IN  [par \in {pares[i] : i \in 1..len(df)} \ {<< >>} |->
           IF col_area = None THEN {}
           ELSE {df.rows[i][col_area].n :
                   i \in {j \in 1..len(df) : pares[j] = par /\ ~isna(df.rows[j][col_area])}}]

ParesPropUT(df) == DOMAIN AreasPorPar(df)

UmaAreaPorPar(df) ==
    LET areas == AreasPorPar(df)
    IN  \A par \in DOMAIN areas : Cardinality(areas[par]) <= 1

SomaDasAreasDosPares(df) ==
    LET areas == AreasPorPar(df)
    IN  somar([par \in DOMAIN areas |->
                 IF areas[par] = {} THEN 0 ELSE CHOOSE a \in areas[par] : TRUE],
              DOMAIN areas)

\* technique tags, read on the text of one characterization row
TagCenso(c) == str_contains_nocase(c, censo)

TagParcela(c) == str_contains_nocase(c, parcela) \/ str_contains_nocase(c, plot)

TemTecnicas(df) == ColTecnica(df) # None /\ len(df) > 0

TecnicasDe(df) == {df.rows[i][ColTecnica(df)] : i \in 1..len(df)}

SoTagsCenso(df) ==
    TemTecnicas(df) /\ \A t \in TecnicasDe(df) : TagCenso(t) /\ ~TagParcela(t)

SoTagsParcela(df) ==
    TemTecnicas(df) /\ \A t \in TecnicasDe(df) : TagParcela(t) /\ ~TagCenso(t)

SemTagAlguma(df) ==
    ~TemTecnicas(df) \/ \A t \in TecnicasDe(df) : ~TagCenso(t) /\ ~TagParcela(t)

Misto(df) ==
    /\ TemTecnicas(df)
    /\ \E t \in TecnicasDe(df) : TagCenso(t)
    /\ \E t \in TecnicasDe(df) : TagParcela(t)

\* C1: census area.  For every inventory in which each (property, work unit)
\* pair carries a single area value, calcular_area_censo_inventario returns the
\* sum of that value over the distinct pairs, called directly or reached through
\* calcular_area_amostrada with census-only techniques, and the area is the
\* same for the inventory with any stem row duplicated once or more.
C1_AreaCensoPorPares ==
    /\ (Chamou("calcular_area_censo_inventario") /\ UmaAreaPorPar(df_inv))
         => /\ resultado.area = SomaDasAreasDosPares(df_inv)
            /\ \A d \in Duplicacoes(df_inv) :
                 calcular_area_censo_inventario(d).area = resultado.area
    /\ (Chamou("calcular_area_amostrada") /\ SoTagsCenso(df_carac) /\ UmaAreaPorPar(df_inv))
         => /\ resultado.area = SomaDasAreasDosPares(df_inv)
            /\ \A d \in Duplicacoes(df_inv) :
                 calcular_area_amostrada(df_carac, d).area = resultado.area

\* a census call on four stem rows over three work units, two rows sharing one
C1_Witness ==
    /\ Chamou("calcular_area_censo_inventario")
    /\ UmaAreaPorPar(df_inv)
    /\ len(df_inv) = 4
    /\ Cardinality(ParesPropUT(df_inv)) = 3
    /\ resultado.area = 2700

\* the plot codes of an inventory that are not missing
CodigosDistintos(df) ==
    {df.rows[i][ColParcela(df)] : i \in {j \in 1..len(df) : ~isna(df.rows[j][ColParcela(df)])}}

AreaDeParcelas(df) == Cardinality(CodigosDistintos(df)) * 100

\* C3: plot area.  For every non-empty inventory with a resolvable plot-code
\* column, calcular_area_parcelas_tradicional returns (distinct plot codes x
\* 100) / 10000 hectares, whatever the number of rows sharing a code; 17
\* distinct codes give 0.17 ha.
C3_AreaParcelas ==
    (Chamou("calcular_area_parcelas_tradicional") /\ len(df_inv) > 0 /\ ColParcela(df_inv) # None)
      => /\ resultado.area * 10000 = AreaDeParcelas(df_inv) * Escala
         /\ \A d \in Duplicacoes(df_inv) :
              calcular_area_parcelas_tradicional(d).area = resultado.area
         /\ Cardinality(CodigosDistintos(df_inv)) = 17 => resultado.area * 100 = 17 * Escala

\* 18 rows over 17 distinct plot codes: 0.17 ha
C3_Witness ==
    /\ Chamou("calcular_area_parcelas_tradicional")
    /\ len(df_inv) = 18
    /\ Cardinality(CodigosDistintos(df_inv)) = 17
    /\ resultado.area * 100 = 17 * Escala

\* the characterization rows of each partition of the mixed case: a row is a
\* census row when its technique text contains the census tag, a plot row
\* otherwise
LinhasCensoCarac(df) == {i \in 1..len(df) : TagCenso(df.rows[i][ColTecnica(df)])}

LinhasParcelaCarac(df) == {i \in 1..len(df) : ~TagCenso(df.rows[i][ColTecnica(df)])}

PropriedadesDe(df, linhas) ==
    IF tem_coluna(df, cod_prop) THEN {str(df.rows[i][cod_prop]) : i \in linhas} ELSE {}

\* the inventory names the property of each of its rows
AtribuiPropriedade(df) ==
    /\ len(df) > 0
    /\ ColParcela(df) # None
    /\ \/ contem(str(df.rows[1][ColParcela(df)]), <<"_">>)
       \/ encontrar_coluna(df, nomes_propriedade) # None

PropriedadeDaLinha(df, i) ==
    IF contem(str(df.rows[1][ColParcela(df)]), <<"_">>)
    THEN split(str(df.rows[i][ColParcela(df)]), "_")[1]
    ELSE str(df.rows[i][encontrar_coluna(df, nomes_propriedade)])

LinhasDasPropriedades(df, props) ==
    Tabela(df.columns,
           selecionar(df.rows, [i \in 1..len(df) |-> PropriedadeDaLinha(df, i) \in props], 1))

AreaCensoDaParticao ==
    calcular_area_censo_inventario(
        LinhasDasPropriedades(df_inv, PropriedadesDe(df_carac, LinhasCensoCarac(df_carac)))).area

AreaParcelasDaParticao ==
    calcular_area_parcelas_tradicional(
        LinhasDasPropriedades(df_inv, PropriedadesDe(df_carac, LinhasParcelaCarac(df_carac)))).area

FalhaCenso(df) ==
    \/ len(df) = 0
    \/ ColParcela(df) = None
    \/ ColArea(df) = None
    \/ FormatoDoInventario(df) = "nenhum"

FalhaParcelas(df) == len(df) = 0 \/ ColParcela(df) = None

ApenasCenso(df) ==
    /\ TemTecnicas(df)
    /\ \E t \in TecnicasDe(df) : TagCenso(t)
    /\ \A t \in TecnicasDe(df) : ~TagParcela(t)

DiagnosticoNaoVazio(metodo) ==
    Len(metodo) >= 1 /\ \A k \in 1..Len(metodo) : metodo[k].texto # ""

C7_Despacho ==
    Chamou("calcular_area_amostrada")
      => /\ SoTagsCenso(df_carac) => resultado = calcular_area_censo_inventario(df_inv)
         /\ SoTagsParcela(df_carac) => resultado = calcular_area_parcelas_tradicional(df_inv)
         /\ SemTagAlguma(df_carac)
              => /\ resultado.area = calcular_area_parcelas_tradicional(df_inv).area
                 /\ (len(df_carac) > 0 \/ len(df_inv) > 0)
                      => resultado = calcular_area_parcelas_tradicional(df_inv)

\* a census-only call whose result is the census algorithm's and not the plot one's
C7_Witness ==
    /\ Chamou("calcular_area_amostrada")
    /\ SoTagsCenso(df_carac)
    /\ resultado = calcular_area_censo_inventario(df_inv)
    /\ resultado.area # calcular_area_parcelas_tradicional(df_inv).area

census == <<"c","e","n","s","u","s">>

TagCensus(c) == str_contains_nocase(c, census)

\* C8: technique recognition.  A characterization whose technique text
\* contains "census", with no value containing "parcela" or "plot", gets the
\* area the census algorithm computes.
C8_CensusReconhecido ==
    (/\ Chamou("calcular_area_amostrada")
     /\ TemTecnicas(df_carac)
     /\ \E t \in TecnicasDe(df_carac) : TagCensus(t)
     /\ \A t \in TecnicasDe(df_carac) : ~TagParcela(t))
      => resultado.area = calcular_area_censo_inventario(df_inv).area

\* the partitions the mixed case works on
CopiaCarac == carac_copy(df_carac, ColTecnica(df_carac))

NaParticao(i, particao) == \E k \in 1..len(particao) : particao.rows[k] = CopiaCarac.rows[i]

NaParticaoCenso(i) == NaParticao(i, dados_censo(CopiaCarac, ColTecnica(df_carac)))

NaParticaoParcelas(i) == NaParticao(i, dados_parcelas(CopiaCarac, ColTecnica(df_carac)))

TecnicaDaLinha(i) == df_carac.rows[i][ColTecnica(df_carac)]

\* C9 as stated: in the mixed case a row is in the census partition iff its
\* technique is a census tag and in the plot partition iff it is a plot tag,
\* so a row with a missing or unrecognised technique is in neither.
C9_ParticaoPorTag ==
    (Chamou("calcular_area_amostrada") /\ Misto(df_carac))
      => \A i \in 1..len(df_carac) :
           /\ NaParticaoCenso(i) <=> TagCenso(TecnicaDaLinha(i))
           /\ NaParticaoParcelas(i) <=> TagParcela(TecnicaDaLinha(i))

\* C9 amended: in the mixed case a row is in the census partition iff its
\* technique text contains the census tag, and in the plot partition iff it
\* does not; a row with a missing or unrecognised technique is a plot row.
C9_ParticaoPorComplemento ==
    (Chamou("calcular_area_amostrada") /\ Misto(df_carac))
      => \A i \in 1..len(df_carac) :
           /\ NaParticaoCenso(i) <=> TagCenso(TecnicaDaLinha(i))
           /\ NaParticaoParcelas(i) <=> ~TagCenso(TecnicaDaLinha(i))
           /\ (~TagCenso(TecnicaDaLinha(i)) /\ ~TagParcela(TecnicaDaLinha(i)))
                => NaParticaoParcelas(i) /\ ~NaParticaoCenso(i)

\* a mixed call with a row of missing technique, found in the plot partition
C9_Witness ==
    /\ Chamou("calcular_area_amostrada")
    /\ Misto(df_carac)
    /\ \E i \in 1..len(df_carac) :
         /\ isna(TecnicaDaLinha(i))
         /\ NaParticaoParcelas(i)
         /\ ~NaParticaoCenso(i)

----------------------------------------------------------------------------
(* properties of the densities, stated over the loaded tables *)

AreaAmostrada == calcular_area_amostrada(df_carac, df_inv).area

\* the density d is n / a, and 0 when there is nothing to count or no area
ValeRazao(d, n, a) ==
    IF a > 0 /\ n > 0 THEN d.area > 0 /\ d.num * a = n * d.area ELSE d.num = 0

\* the distinct tags of a table
TagsDe(df) == {df.rows[i][plaqueta] : i \in {j \in 1..len(df) : ~isna(df.rows[j][plaqueta])}}

TemColunasDosFiltros(df) ==
    /\ tem_coluna(df, plaqueta)
    /\ tem_coluna(df, especies)
    /\ tem_coluna(df, origem)
    /\ tem_coluna(df, idade)
    /\ tem_coluna(df, ht)

\* a row that is not dead, native, young and at least 0.499 high
LinhaRegenerante(r) ==
    /\ ~str_contains_nocase(r[especies], morto)
    /\ ~str_contains_nocase(r[especies], morta)
    /\ str_contains_nocase(r[origem], nativa)
    /\ str_contains_nocase(r[idade], jovem)
    /\ r[ht].t = "num"
    /\ r[ht].n * 1000 >= 499 * Escala

TagsRegenerantes(df) ==
    {df.rows[i][plaqueta] :
       i \in {j \in 1..len(df) : LinhaRegenerante(df.rows[j]) /\ ~isna(df.rows[j][plaqueta])}}

\* the four filter steps applied in a given order
Ordens == {o \in [1..4 -> 1..4] : \A a, b \in 1..4 : o[a] = o[b] => a = b}

Passo(k, df) ==
    CASE k = 1 -> filtro_mortos(df)
      [] k = 2 -> filtro_origem(df)
      [] k = 3 -> filtro_idade(df)
      [] k = 4 -> filtro_altura(df)

NaOrdem(o, df) == Passo(o[4], Passo(o[3], Passo(o[2], Passo(o[1], df))))

C5_DensidadeGeral ==
    (Chamou("calcular_densidade_geral") /\ tem_coluna(df_inv, plaqueta))
      => ValeRazao(resultado.densidade, Cardinality(TagsDe(df_inv)), AreaAmostrada)

\* C5 amended: when neither table is empty the general density is the number
\* of distinct tags over the sampled area, and 0 when that area is not
\* positive; when the inventory or the characterization is empty it is 0
\* whatever the area; for P1 (0.10 ha and 0.07 ha, 65 tags) it is 65 / 0.17.
C5_DensidadeGeralComDados ==
    (Chamou("calcular_densidade_geral") /\ tem_coluna(df_inv, plaqueta))
      => /\ (len(df_inv) > 0 /\ len(df_carac) > 0)
              => ValeRazao(resultado.densidade, Cardinality(TagsDe(df_inv)), AreaAmostrada)
         /\ (len(df_inv) = 0 \/ len(df_carac) = 0) => resultado.densidade.num = 0
         /\ (df_inv = InventarioP1 /\ df_carac = CaracterizacaoP1)
              => resultado.densidade = Razao(65, (17 * Escala) \div 100)

\* the general density of P1: 80 stems, 65 tags, 0.17 ha
C5_Witness ==
    /\ Chamou("calcular_densidade_geral")
    /\ df_inv = InventarioP1
    /\ df_carac = CaracterizacaoP1
    /\ len(df_inv) = 80
    /\ Cardinality(TagsDe(df_inv)) = 65
    /\ AreaAmostrada * 100 = 17 * Escala
    /\ resultado.densidade = Razao(65, AreaAmostrada)

\* the pipeline made of the steps whose column the inventory has
SoPassoPresente(df, col, k, original) == IF tem_coluna(original, col) THEN Passo(k, df) ELSE df

PassosPresentes(df) ==
    SoPassoPresente(
        SoPassoPresente(
            SoPassoPresente(
                SoPassoPresente(df, especies, 1, df),
                origem, 2, df),
            idade, 3, df),
        ht, 4, df)

\* C10: optional filter steps.  When the inventory lacks the column of a step
\* (species, origin, age class or height), calcular_densidade_regenerantes
\* returns what the pipeline of the remaining steps returns.
C10_PassosOpcionais ==
    (/\ Chamou("calcular_densidade_regenerantes")
     /\ len(df_inv) > 0 /\ len(df_carac) > 0
     /\ tem_coluna(df_inv, plaqueta))
      => ValeRazao(resultado.densidade, Cardinality(TagsDe(PassosPresentes(df_inv))), AreaAmostrada)

----------------------------------------------------------------------------
(* properties of the restoration indicators, stated over the loaded tables *)

PropriedadeA == Str(<<"A">>)

\* every row of the characterization belongs to property A
SoPropriedadeA(df) ==
    /\ tem_coluna(df, cod_prop)
    /\ len(df) > 0
    /\ \A i \in 1..len(df) : df.rows[i][cod_prop] = PropriedadeA

\* a row counted whatever its height: not dead, native and young
VivaNativaJovem(r) ==
    /\ ~str_contains_nocase(r[especies], morto)
    /\ ~str_contains_nocase(r[especies], morta)
    /\ str_contains_nocase(r[origem], nativa)
    /\ str_contains_nocase(r[idade], jovem)

\* the rows whose height is a number of at least lim / Escala metres
LinhasDesde(df, lim) ==
    SelectSeq(df.rows, LAMBDA r : r[ht].t = "num" /\ r[ht].n >= lim)

TagsDesde(df, lim) ==
    {df.rows[i][plaqueta] :
       i \in {j \in 1..len(df) : /\ VivaNativaJovem(df.rows[j])
                                 /\ ~isna(df.rows[j][plaqueta])
                                 /\ df.rows[j][ht].t = "num"
                                 /\ df.rows[j][ht].n >= lim}}

\* the species of the rows strictly higher than lim / Escala metres
EspeciesAcima(df, lim) ==
    {df.rows[i][especies] :
       i \in {j \in 1..len(df) : /\ VivaNativaJovem(df.rows[j])
                                 /\ ~isna(df.rows[j][especies])
                                 /\ df.rows[j][ht].t = "num"
                                 /\ df.rows[j][ht].n > lim}}

IndicadoresDeA ==
    /\ Chamou("calcular_indicadores_propriedade")
    /\ resultado.cod_prop = PropriedadeA
    /\ SoPropriedadeA(df_carac)
    /\ len(df_inv) > 0
    /\ tem_coluna(df_inv, ht)

----------------------------------------------------------------------------
(* the area under the densities *)

\* the rows the four regenerant filters keep
Filtrado == filtro_altura(filtro_idade(filtro_origem(filtro_mortos(df_inv))))

\* C12: filtered count over unfiltered area.  Whenever a density function
\* divides, the area it divides by is the one calcular_area_amostrada returns
\* for the characterization and the inventory exactly as passed in: the same
\* for calcular_densidade_geral and calcular_densidade_regenerantes on the
\* same tables, whatever rows the regenerant filters removed.
C12_AreaNaoFiltrada ==
    /\ (Chamou("calcular_densidade_regenerantes") /\ resultado.densidade # Zero)
         => resultado.densidade.area = AreaAmostrada
    /\ (Chamou("calcular_densidade_geral") /\ resultado.densidade # Zero)
         => resultado.densidade.area = AreaAmostrada
    /\ (/\ ~Chamou("nenhuma")
        /\ calcular_densidade_geral(df_inv, df_carac).densidade # Zero
        /\ calcular_densidade_regenerantes(df_inv, df_carac) # Zero)
         => calcular_densidade_geral(df_inv, df_carac).densidade.area
              = calcular_densidade_regenerantes(df_inv, df_carac).area

\* two stems in two census work units, the filters remove one of them: the
\* regenerant density still divides by the area of both work units
C12_Witness ==
    /\ Chamou("calcular_densidade_regenerantes")
    /\ len(df_inv) = 2
    /\ len(Filtrado) = 1
    /\ tem_coluna(df_inv, plaqueta)
    /\ AreaAmostrada = 6000
    /\ calcular_area_amostrada(df_carac, Filtrado).area < AreaAmostrada
    /\ resultado.densidade = Razao(1, AreaAmostrada)
    /\ calcular_densidade_geral(df_inv, df_carac).densidade = Razao(2, AreaAmostrada)

----------------------------------------------------------------------------
(* inconsistent areas inside one work unit *)

\* C13: inconsistent area is surfaced.  When the rows of one (property, work
\* unit) pair carry two or more distinct area values, the description returned
\* by the census area computation is not its normal one ("Censo (n UTs, m
\* indivíduos)"): the defect shows as a diagnostic of its own.
C13_AreaInconsistenteAvisada ==
    (Chamou("calcular_area_censo_inventario") /\ ~UmaAreaPorPar(df_inv))
      => \A k \in 1..Len(resultado.metodo) :
           resultado.metodo[k].texto # "Censo ({n1} UTs, {n2} indivíduos)"

----------------------------------------------------------------------------
(* properties of the phytosociology tables, stated over the inventory *)

ModosFito == {"calcular_fitossociologia_censo", "calcular_fitossociologia_parcelas"}

\* a species table was produced by the call
TabelaCalculada(modo) == Chamou(modo) /\ resultado.mensagem = ""

LinhasDaTabela == {resultado.tabela[k] : k \in DOMAIN resultado.tabela}

\* the diameter of stem row i in whole centimetres, after the unit step
DiametroCm(df, i) ==
    IF daps_em_mm(df, dap) THEN (df.rows[i][dap].n \div 10) \div Escala
    ELSE df.rows[i][dap].n \div Escala

\* the basal area of stem row i, in units of pi/4 cm2: pi * (d / 2)^2 / 10000
\* m2 for a diameter of d cm; a row without a numeric diameter adds nothing
AreaDoFuste(df, i) ==
    IF df.rows[i][dap].t = "num" THEN DiametroCm(df, i) * DiametroCm(df, i) ELSE 0

\* the distinct tags among the rows of species e
TagsDaEspecie(df, e) ==
    {df.rows[i][plaqueta] :
       i \in {j \in 1..len(df) : df.rows[j][especies] = e /\ ~isna(df.rows[j][plaqueta])}}

FustesDoIndividuo(df, e, tag) ==
    {i \in 1..len(df) : df.rows[i][especies] = e /\ df.rows[i][plaqueta] = tag}

AreaDoIndividuo(df, e, tag) ==
    somar([i \in 1..len(df) |-> AreaDoFuste(df, i)], FustesDoIndividuo(df, e, tag))

AreaDaEspecie(df, e) ==
    somar([tag \in TagsDaEspecie(df, e) |-> AreaDoIndividuo(df, e, tag)], TagsDaEspecie(df, e))

EspeciesComTag(df) ==
    {df.rows[i][especies] :
       i \in {j \in 1..len(df) : ~isna(df.rows[j][especies]) /\ ~isna(df.rows[j][plaqueta])}}

TresFustes ==
    << LinhaFito(<<"A","_","1">>, Num(1), Ipe, Num(10 * Escala)),
       LinhaFito(<<"A","_","1">>, Num(1), Ipe, Num(15 * Escala)),
       LinhaFito(<<"A","_","1">>, Num(1), Ipe, Num(20 * Escala)) >>

\* C14: multi-stem basal area.  In both modes, on an inventory with a tag and
\* a diameter column, the table has one row per species with a tagged stem,
\* whose basal area is the sum over the distinct tags of the species of the
\* sum of the basal areas of the stem rows of that tag, each stem adding
\* pi * (diameter_cm / 2)^2 / 10000; one individual with stems of 10, 15 and
\* 20 cm adds pi/4 * (0.10^2 + 0.15^2 + 0.20^2) m2 and counts once.
C14_AreaBasalPorIndividuo ==
    \A modo \in ModosFito :
      (TabelaCalculada(modo) /\ tem_coluna(df_inv, plaqueta) /\ tem_coluna(df_inv, dap))
        => /\ {r.especie : r \in LinhasDaTabela} = EspeciesComTag(df_inv)
           /\ \A r \in LinhasDaTabela :
                r.area_basal_total = AreaDaEspecie(df_inv, r.especie)
           /\ df_inv.rows = TresFustes
                => /\ Len(resultado.tabela) = 1
                   /\ resultado.tabela[1].area_basal_total = 100 + 225 + 400
                   /\ resultado.tabela[1].num_individuos = 1

\* the census table of one individual with three stems of 10, 15 and 20 cm
C14_Witness ==
    /\ TabelaCalculada("calcular_fitossociologia_censo")
    /\ df_inv.rows = TresFustes
    /\ tem_coluna(df_inv, plaqueta)
    /\ tem_coluna(df_inv, dap)
    /\ resultado.tabela[1].especie = Ipe
    /\ resultado.tabela[1].area_basal_total = 725
    /\ resultado.tabela[1].num_individuos = 1

\* C15: individual counts by tag.  Whenever the inventory has a tag column,
\* the individual count of every species in the table of either mode is the
\* number of distinct tags among the rows of the species, with or without a
\* diameter column; so is the count individuos_especies of the plot mode.
C15_IndividuosPorPlaqueta ==
    /\ \A modo \in ModosFito :
         (TabelaCalculada(modo) /\ tem_coluna(df_inv, plaqueta))
           => \A r \in LinhasDaTabela :
                r.num_individuos = Cardinality(TagsDaEspecie(df_inv, r.especie))
    /\ (/\ Chamou("calcular_fitossociologia_parcelas")
        /\ tem_coluna(df_inv, plaqueta)
        /\ tem_coluna(df_inv, especies))
         => \A e \in DOMAIN individuos_especies(df_inv, especies, plaqueta) :
              individuos_especies(df_inv, especies, plaqueta)[e]
                = Cardinality(TagsDaEspecie(df_inv, e))

\* a census table without diameters: a species with three stem rows under
\* one tag counts one individual
C15_Witness ==
    /\ TabelaCalculada("calcular_fitossociologia_censo")
    /\ tem_coluna(df_inv, plaqueta)
    /\ ~tem_coluna(df_inv, dap)
    /\ len(df_inv) = 3
    /\ \A i \in 1..3 : df_inv.rows[i][especies] = Ipe /\ df_inv.rows[i][plaqueta] = Num(1)
    /\ Len(resultado.tabela) = 1
    /\ resultado.tabela[1].num_individuos = 1

\* C16: phytosociology column requirements.  calcular_fitossociologia_censo
\* produces a species table for every non-empty inventory that has a species
\* column, with or without a diameter and a tag column (dominance 0 and
\* coverage value = relative density / 2 without diameters);
\* calcular_fitossociologia_parcelas needs the plot-code column besides.
C16_ColunasNecessarias ==
    /\ (/\ Chamou("calcular_fitossociologia_censo")
        /\ len(df_inv) > 0
        /\ tem_coluna(df_inv, especies))
         => /\ resultado.mensagem = ""
            /\ ~tem_coluna(df_inv, dap)
                 => \A r \in LinhasDaTabela :
                      /\ r.dominancia_relativa = Fracao(0, 1)
                      /\ r.valor_cobertura = dividido(r.densidade_relativa, 2)
    /\ (/\ Chamou("calcular_fitossociologia_parcelas")
        /\ len(df_inv) > 0
        /\ tem_coluna(df_inv, especies)
        /\ tem_coluna(df_inv, cod_parc))
         => resultado.mensagem = ""

----------------------------------------------------------------------------
(* the indices of the species tables *)

RECURSIVE mdc(_, _)
mdc(a, b) == IF b = 0 THEN a ELSE mdc(b, a % b)

\* a fraction in lowest terms; a zero denominator is NaN
Reduzida(f) ==
    IF f.den = 0 THEN Fracao(0, 0)
    ELSE Fracao(f.num \div mdc(f.num, f.den), f.den \div mdc(f.num, f.den))

\* the value f is the quotient num / den
ValeQuociente(f, num, den) == Reduzida(f) = Reduzida(Fracao(num, den))

TotalDe(campo) ==
    somar([k \in DOMAIN resultado.tabela |-> resultado.tabela[k][campo]],
          DOMAIN resultado.tabela)

\* diameter data give a positive total basal area
ComDominancia == tem_coluna(df_inv, dap) /\ TotalDe("area_basal_total") > 0

\* twice the coverage value of row r over the common denominator N * AB, or
\* over N when there is no dominance
CoberturaVezesDois(r, N, AB) ==
    IF ComDominancia THEN 100 * (r.num_individuos * AB + r.area_basal_total * N)
    ELSE 100 * r.num_individuos

\* C17: census-mode indices.  In every census table, for every species,
\* relative density = 100 * individuals / total individuals, relative
\* dominance = 100 * basal area / total basal area and coverage value =
\* (relative density + relative dominance) / 2 when diameter data give a
\* positive total basal area, dominance 0 and coverage value = relative
\* density / 2 otherwise; the rows are in non-increasing order of coverage
\* value.
C17_IndicesCenso ==
    TabelaCalculada("calcular_fitossociologia_censo")
      => LET N  == TotalDe("num_individuos")
             AB == TotalDe("area_basal_total")
         IN  /\ \A r \in LinhasDaTabela :
                  /\ ValeQuociente(r.densidade_relativa, 100 * r.num_individuos, N)
                  /\ ComDominancia
                       => /\ ValeQuociente(r.dominancia_relativa, 100 * r.area_basal_total, AB)
                          /\ ValeQuociente(r.valor_cobertura,
                                           CoberturaVezesDois(r, N, AB), 2 * N * AB)
                  /\ ~ComDominancia
                       => /\ ValeQuociente(r.dominancia_relativa, 0, 1)
                          /\ ValeQuociente(r.valor_cobertura, 100 * r.num_individuos, 2 * N)
             /\ N > 0
                  => \A k \in 1..(Len(resultado.tabela) - 1) :
                       CoberturaVezesDois(resultado.tabela[k], N, AB)
                         >= CoberturaVezesDois(resultado.tabela[k + 1], N, AB)

\* a census table of two species with diameters, the first with the strictly
\* larger coverage value
C17_Witness ==
    /\ TabelaCalculada("calcular_fitossociologia_censo")
    /\ ComDominancia
    /\ Len(resultado.tabela) = 2
    /\ resultado.tabela[1].especie = Jatoba
    /\ resultado.tabela[1].num_individuos = 1
    /\ resultado.tabela[2].num_individuos = 1
    /\ resultado.tabela[1].area_basal_total > resultado.tabela[2].area_basal_total
    /\ CoberturaVezesDois(resultado.tabela[1], 2, TotalDe("area_basal_total"))
         > CoberturaVezesDois(resultado.tabela[2], 2, TotalDe("area_basal_total"))

\* the distinct plot codes among the rows of species e
ParcelasDaEspecie(df, e) ==
    {df.rows[i][cod_parc] :
       i \in {j \in 1..len(df) : df.rows[j][especies] = e /\ ~isna(df.rows[j][cod_parc])}}

\* the importance value of row r times its number of terms, over the common
\* denominator N * AB * F, or N * F when there is no dominance
ImportanciaVezesTermos(r, N, AB, F) ==
    IF ComDominancia
    THEN 100 * (r.num_individuos * AB * F + r.area_basal_total * N * F + r.frequencia * N * AB)
    ELSE 100 * (r.num_individuos * F + r.frequencia * N)

\* C18: plot-mode indices.  In every plot table, for every species, the
\* frequency is the number of distinct plot codes containing the species,
\* relative frequency = 100 * frequency / (sum of the frequencies of all
\* species), importance value = (relative density + relative dominance +
\* relative frequency) / 3 when diameter data give a positive total basal
\* area and (relative density + relative frequency) / 2 otherwise; the rows
\* are in non-increasing order of importance value.
C18_IndicesParcelas ==
    TabelaCalculada("calcular_fitossociologia_parcelas")
      => LET N  == TotalDe("num_individuos")
             AB == TotalDe("area_basal_total")
             F  == TotalDe("frequencia")
         IN  /\ \A r \in LinhasDaTabela :
                  /\ r.frequencia = Cardinality(ParcelasDaEspecie(df_inv, r.especie))
                  /\ ValeQuociente(r.frequencia_relativa, 100 * r.frequencia, F)
                  /\ ValeQuociente(r.densidade_relativa, 100 * r.num_individuos, N)
                  /\ ComDominancia
                       => ValeQuociente(r.valor_importancia,
                                        ImportanciaVezesTermos(r, N, AB, F), 3 * N * AB * F)
                  /\ ~ComDominancia
                       => ValeQuociente(r.valor_importancia,
                                        ImportanciaVezesTermos(r, N, AB, F), 2 * N * F)
             /\ (N > 0 /\ F > 0)
                  => \A k \in 1..(Len(resultado.tabela) - 1) :
                       ImportanciaVezesTermos(resultado.tabela[k], N, AB, F)
                         >= ImportanciaVezesTermos(resultado.tabela[k + 1], N, AB, F)

\* a plot table of two species with diameters: the first occurs in two plots
\* and has the strictly larger importance value
C18_Witness ==
    /\ TabelaCalculada("calcular_fitossociologia_parcelas")
    /\ ComDominancia
    /\ Len(resultado.tabela) = 2
    /\ len(df_inv) = 3
    /\ resultado.tabela[1].frequencia = 2
    /\ resultado.tabela[2].frequencia = 1
    /\ ValeQuociente(resultado.tabela[1].frequencia_relativa, 200, 3)
    /\ ImportanciaVezesTermos(resultado.tabela[1], TotalDe("num_individuos"),
                              TotalDe("area_basal_total"), 3)
         > ImportanciaVezesTermos(resultado.tabela[2], TotalDe("num_individuos"),
                                  TotalDe("area_basal_total"), 3)

----------------------------------------------------------------------------
(* status and targets of a property *)

IndicadoresCalculados == Chamou("calcular_indicadores_propriedade")

\* the three axes, read on the values the result reports
CopaAtingida == resultado.cobertura_copa.num >= 80 * resultado.cobertura_copa.den

DensidadeAtingida ==
    /\ resultado.densidade_regenerantes.area > 0
    /\ resultado.densidade_regenerantes.num * Escala
         >= resultado.meta_densidade * resultado.densidade_regenerantes.area

RiquezaAtingida == resultado.riqueza_observada * Escala >= resultado.meta_riqueza

EixosAtingidos ==
    Cardinality({k \in 1..3 : <<CopaAtingida, DensidadeAtingida, RiquezaAtingida>>[k]})

LinhasDoResultado ==
    IF tem_coluna(df_carac, cod_prop)
    THEN {i \in 1..len(df_carac) : df_carac.rows[i][cod_prop] = resultado.cod_prop}
    ELSE {}

PrimeiraLinhaDoResultado ==
    CHOOSE i \in LinhasDoResultado : \A j \in LinhasDoResultado : i <= j

\* the restoration-method text of the property names assisted restoration
TextoIndicaAssistida ==
    /\ tem_coluna(df_carac, metodo_restauracao)
    /\ LinhasDoResultado # {}
    /\ str_contains_nocase(df_carac.rows[PrimeiraLinhaDoResultado][metodo_restauracao],
                           assistida)

\* C20: density target selection.  The regenerant-density target is 1500 when
\* the method of the property is Assistida and 1333 otherwise; the method is
\* Ativa unless the restoration-method text of the property indicates
\* assisted restoration, and Ativa when the method column is absent.
C20_MetaDeDensidade ==
    IndicadoresCalculados
      => /\ resultado.metodo_restauracao \in {"Ativa", "Assistida"}
         /\ resultado.metodo_restauracao = "Assistida" <=> TextoIndicaAssistida
         /\ resultado.meta_densidade =
              (IF resultado.metodo_restauracao = "Assistida" THEN 1500 ELSE 1333)
         /\ ~tem_coluna(df_carac, metodo_restauracao)
              => /\ resultado.metodo_restauracao = "Ativa"
                 /\ resultado.meta_densidade = 1333

\* a property whose method reads "Natural assistida" gets the target 1500
C20_Witness ==
    /\ IndicadoresCalculados
    /\ LinhasDoResultado # {}
    /\ tem_coluna(df_carac, metodo_restauracao)
    /\ df_carac.rows[PrimeiraLinhaDoResultado][metodo_restauracao]
         = Str(<<"N","a","t","u","r","a","l"," ","a","s","s","i","s","t","i","d","a">>)
    /\ resultado.metodo_restauracao = "Assistida"
    /\ resultado.meta_densidade = 1500

----------------------------------------------------------------------------
(* the densities as total functions *)

\* a density that is a number and not negative: a count over a positive
\* area, or 0.0
DensidadeNumerica(d) == d.num >= 0 /\ (d.area > 0 \/ d = Zero)

\* C21: densities never fail.  For every pair of tables both density
\* functions return a number >= 0, and they return 0 when the inventory is
\* empty, when the characterization is empty, when the computed area is not
\* positive and, for the regenerants, when no row survives the filters.
C21_DensidadesNuncaFalham ==
    /\ Chamou("calcular_densidade_geral")
         => /\ DensidadeNumerica(resultado.densidade)
            /\ (len(df_inv) = 0 \/ len(df_carac) = 0 \/ AreaAmostrada <= 0)
                 => resultado.densidade.num = 0
    /\ Chamou("calcular_densidade_regenerantes")
         => /\ DensidadeNumerica(resultado.densidade)
            /\ (\/ len(df_inv) = 0 \/ len(df_carac) = 0
                \/ AreaAmostrada <= 0 \/ len(Filtrado) = 0)
                 => resultado.densidade.num = 0

\* stems pass the filters and the inventory has no area to divide by
C21_Witness ==
    /\ Chamou("calcular_densidade_regenerantes")
    /\ len(df_inv) > 0 /\ len(df_carac) > 0
    /\ len(Filtrado) > 0
    /\ AreaAmostrada = 0
    /\ resultado.densidade = Zero

----------------------------------------------------------------------------
(* the column resolver *)

\* a name in lower case without spaces and underscores
Normalizado(nome) == SelectSeq(lower(nome), LAMBDA ch : ch # " " /\ ch # "_")

\* the column name contains the candidate, both normalized
Casa(col, nome) ==
    \E i \in 0..(Len(Normalizado(col)) - Len(Normalizado(nome))) :
       SubSeq(Normalizado(col), i + 1, i + Len(Normalizado(nome))) = Normalizado(nome)

Menor(S) == CHOOSE x \in S : \A y \in S : x <= y

\* positions of the columns that contain some candidate
PosicoesQueCasam(cols, nomes) ==
    {i \in 1..Len(cols) : \E j \in 1..Len(nomes) : Casa(cols[i], nomes[j])}

\* positions of the candidates that some column contains
CandidatosQueCasam(cols, nomes) ==
    {j \in 1..Len(nomes) : \E i \in 1..Len(cols) : Casa(cols[i], nomes[j])}

PosicoesDoCandidato(cols, nome) == {i \in 1..Len(cols) : Casa(cols[i], nome)}

\* C22 as stated: the column returned is the first one, in the column order
\* of the table, that contains any candidate, and None exactly when no
\* column contains any candidate.
C22_PrimeiraColunaQueCasa ==
    Chamou("encontrar_coluna")
      => IF PosicoesQueCasam(df_inv.columns, resultado.nomes) = {}
         THEN resultado.coluna = None
         ELSE resultado.coluna
                = df_inv.columns[Menor(PosicoesQueCasam(df_inv.columns, resultado.nomes))]

\* C22 amended: the column returned is the first one, in the column order of
\* the table, that contains the earliest candidate of the list contained by
\* any column, and None exactly when no column contains any candidate.
C22_PrimeiraColunaDoPrimeiroCandidato ==
    Chamou("encontrar_coluna")
      => IF CandidatosQueCasam(df_inv.columns, resultado.nomes) = {}
         THEN /\ resultado.coluna = None
              /\ PosicoesQueCasam(df_inv.columns, resultado.nomes) = {}
         ELSE resultado.coluna
                = df_inv.columns[
                    Menor(PosicoesDoCandidato(
                            df_inv.columns,
                            resultado.nomes[
                              Menor(CandidatosQueCasam(df_inv.columns, resultado.nomes))]))]

\* 'ID Planta' stands left of 'Plaq 2': the candidate 'plaq' comes before
\* 'id', and 'Plaq 2' is returned
C22_Witness ==
    /\ Chamou("encontrar_coluna")
    /\ df_inv.columns = << <<"I","D"," ","P","l","a","n","t","a">>, <<"P","l","a","q"," ","2">> >>
    /\ resultado.nomes = nomes_plaqueta
    /\ resultado.coluna = <<"P","l","a","q"," ","2">>

\* the position of a column in the table
PosicaoDe(cols, col) == CHOOSE i \in 1..Len(cols) : cols[i] = col

\* the candidates the column contains
CandidatosDe(col, nomes) == {j \in 1..Len(nomes) : Casa(col, nomes[j])}

\* C23: resolver priority.  The result is a function of the columns and the
\* candidate list, and it is candidate-major: the column returned contains
\* the earliest candidate contained by any column, no column to its left
\* contains that candidate, and so no column matching only later candidates
\* is returned while some column matches an earlier one.
C23_PrioridadeDoCandidato ==
    Chamou("encontrar_coluna")
      => /\ resultado.coluna = encontrar_coluna(df_inv, resultado.nomes)
         /\ resultado.coluna # None
              => /\ tem_coluna(df_inv, resultado.coluna)
                 /\ CandidatosDe(resultado.coluna, resultado.nomes) # {}
                 /\ \A j \in CandidatosQueCasam(df_inv.columns, resultado.nomes) :
                      Menor(CandidatosDe(resultado.coluna, resultado.nomes)) <= j
                 /\ \A i \in 1..(PosicaoDe(df_inv.columns, resultado.coluna) - 1) :
                      ~Casa(df_inv.columns[i],
                            resultado.nomes[Menor(CandidatosDe(resultado.coluna, resultado.nomes))])

\* 'area_ha' contains the last height candidate 'h' and stands left of 'ht',
\* which contains the first: 'ht' is returned
C23_Witness ==
    /\ Chamou("encontrar_coluna")
    /\ df_inv.columns = << area_ha, ht >>
    /\ resultado.nomes = nomes_altura
    /\ Casa(area_ha, resultado.nomes[4])
    /\ resultado.coluna = ht

----------------------------------------------------------------------------
(* the loaded tables across computations *)

\* what the call just made returns for the tables as they are after it
ResultadoDosArgumentos ==
    /\ chamada' = "calcular_area_amostrada"
         => resultado' = calcular_area_amostrada(df_carac', df_inv')
    /\ chamada' = "calcular_area_censo_inventario"
         => resultado' = calcular_area_censo_inventario(df_inv')
    /\ chamada' = "calcular_area_parcelas_tradicional"
         => resultado' = calcular_area_parcelas_tradicional(df_inv')
    /\ chamada' = "calcular_densidade_geral"
         => resultado' = calcular_densidade_geral(df_inv', df_carac')
    /\ chamada' = "calcular_densidade_regenerantes"
         => resultado'.densidade = calcular_densidade_regenerantes(df_inv', df_carac')
    /\ chamada' = "calcular_indicadores_propriedade"
         => resultado' = calcular_indicadores_propriedade(resultado'.cod_prop, df_carac', df_inv')
    /\ chamada' = "calcular_fitossociologia_censo"
         => resultado' \in calcular_fitossociologia_censo(df_inv', df_carac')
    /\ chamada' = "calcular_fitossociologia_parcelas"
         => resultado' \in calcular_fitossociologia_parcelas(df_inv', df_carac')

----------------------------------------------------------------------------
(* the description returned with the census area *)

\* the distinct tags of the rows of one (property, work unit) pair
TagsDoPar(df, par) ==
    {df.rows[i][plaqueta] :
       i \in {j \in 1..len(df) : ParesDasLinhas(df)[j] = par /\ ~isna(df.rows[j][plaqueta])}}

LinhasDoPar(df, par) == {i \in 1..len(df) : ParesDasLinhas(df)[i] = par}

DescricaoDoCenso ==
    /\ Chamou("calcular_area_censo_inventario")
    /\ tem_coluna(df_inv, plaqueta)
    /\ Len(resultado.metodo) = 1
    /\ resultado.metodo[1].texto = "Censo ({n1} UTs, {n2} indivíduos)"

\* C25: census audit description.  The description returned by
\* calcular_area_censo_inventario reports the number of distinct (property,
\* work unit) groups used and, as the number of individuals, the sum over
\* those groups of the number of distinct tags of the group.
C25_DescricaoContaPlaquetas ==
    DescricaoDoCenso
      => /\ resultado.metodo[1].n1 = Cardinality(ParesPropUT(df_inv))
         /\ resultado.metodo[1].n2
              = somar([par \in ParesPropUT(df_inv) |-> Cardinality(TagsDoPar(df_inv, par))],
                      ParesPropUT(df_inv))

----------------------------------------------------------------------------
(* the diversity indices *)

\* the species named by the rows of the inventory, and the rows of each
EspeciesDoInventario ==
    IF tem_coluna(df_inv, especies)
    THEN {df_inv.rows[i][especies] : i \in {j \in 1..len(df_inv) : ~isna(df_inv.rows[j][especies])}}
    ELSE {}

Abundancia(e) == Cardinality({i \in 1..len(df_inv) : df_inv.rows[i][especies] = e})

TotalDeLinhasComEspecie ==
    Cardinality({i \in 1..len(df_inv) : df_inv.rows[i][especies] \in EspeciesDoInventario})

SomaDosQuadrados == somar([e \in EspeciesDoInventario |-> Abundancia(e) * Abundancia(e)],
                          EspeciesDoInventario)

IndicesCalculados == Chamou("calcular_indices_diversidade")

\* C26: Pielou guard.  calcular_indices_diversidade never divides by
\* ln(1) = 0: with exactly one species it reports evenness 0, Shannon 0 and
\* Simpson diversity 0; with no species it reports no index; with more
\* species the evenness is Shannon over the logarithm of the richness; and
\* richness, Shannon, Simpson and Pielou all come from the one abundance
\* table of the inventory.
C26_GuardaDePielou ==
    IndicesCalculados
      => /\ EspeciesDoInventario = {} <=> resultado.indices = << >>
         /\ EspeciesDoInventario # {}
              => /\ Len(resultado.indices) = 1
                 /\ resultado.mensagem = ""
                 /\ resultado.indices[1].equitabilidade.den # 0
                 /\ resultado.indices[1].riqueza = Cardinality(EspeciesDoInventario)
                 /\ resultado.indices[1].shannon.den = TotalDeLinhasComEspecie
                 /\ resultado.indices[1].simpson_diversidade
                      = Fracao(TotalDeLinhasComEspecie * TotalDeLinhasComEspecie - SomaDosQuadrados,
                               TotalDeLinhasComEspecie * TotalDeLinhasComEspecie)
         /\ Cardinality(EspeciesDoInventario) = 1
              => /\ resultado.indices[1].equitabilidade.num = 0
                 /\ resultado.indices[1].shannon.num = 0
                 /\ resultado.indices[1].simpson_diversidade.num = 0
         /\ Cardinality(EspeciesDoInventario) > 1
              => /\ resultado.indices[1].shannon.num > 0
                 /\ resultado.indices[1].equitabilidade.num = resultado.indices[1].shannon.num
                 /\ resultado.indices[1].equitabilidade.den
                      = resultado.indices[1].shannon.den
                          * log(Cardinality(EspeciesDoInventario))

\* three stems of one species: the four indices are shown, evenness 0
C26_Witness ==
    /\ IndicesCalculados
    /\ len(df_inv) = 3
    /\ EspeciesDoInventario = {Ipe}
    /\ Len(resultado.indices) = 1
    /\ resultado.indices[1].riqueza = 1
    /\ resultado.indices[1].shannon = Fracao(0, 3)
    /\ resultado.indices[1].equitabilidade = Fracao(0, 1)

----------------------------------------------------------------------------
(* the inventory rows behind the two parts of the mixed area *)

\* the rows of the inventory whose property is one of props
IndicesDasPropriedades(df, props) ==
    {i \in 1..len(df) : lower(PropriedadeDaLinha(df, i)) \in {lower(p) : p \in props}}

LinhasContadasNoCenso ==
    IndicesDasPropriedades(df_inv, PropriedadesDe(df_carac, LinhasCensoCarac(df_carac)))

LinhasContadasNasParcelas ==
    IndicesDasPropriedades(df_inv, PropriedadesDe(df_carac, LinhasParcelaCarac(df_carac)))

CasoMisto ==
    /\ Chamou("calcular_area_amostrada")
    /\ Misto(df_carac)
    /\ AtribuiPropriedade(df_inv)

\* C27: mixed partitions do not overlap in the inventory.  In the mixed case
\* of calcular_area_amostrada no inventory row is among the rows behind the
\* census area and also among the rows behind the plot area, even for a
\* property whose work units are partly census and partly plot.
C27_ParticoesSemSobreposicao ==
    CasoMisto => LinhasContadasNoCenso \cap LinhasContadasNasParcelas = {}

----------------------------------------------------------------------------
(* the two densities side by side *)

\* a / b <= c / d for densities kept as count over area, 0.0 being Zero
MenorOuIgual(x, y) ==
    IF x.area = 0 THEN TRUE
    ELSE IF y.area = 0 THEN x.num = 0
    ELSE x.num * y.area <= y.num * x.area

\* C28: regenerants are a subset of all individuals.  For every pair of
\* tables the value of calcular_densidade_regenerantes is at most the density
\* of calcular_densidade_geral on the same tables, with or without a tag
\* column in the inventory.
C28_RegenerantesDentroDoGeral ==
    ~Chamou("nenhuma")
      => MenorOuIgual(calcular_densidade_regenerantes(df_inv, df_carac),
                      calcular_densidade_geral(df_inv, df_carac).densidade)

----------------------------------------------------------------------------
(* the census area and the order of the rows *)

Permutacoes(n) == {p \in [1..n -> 1..n] : \A a, b \in 1..n : p[a] = p[b] => a = b}

Permutado(df, p) == Tabela(df.columns, [i \in 1..len(df) |-> df.rows[p[i]]])

\* every plot code of the inventory carries one area value
UmaAreaPorCodigo(df) ==
    /\ ColParcela(df) # None
    /\ ColArea(df) # None
    /\ \A i, j \in 1..len(df) :
         df.rows[i][ColParcela(df)] = df.rows[j][ColParcela(df)]
           => df.rows[i][ColArea(df)] = df.rows[j][ColArea(df)]

\* C29: row-order independence of the census area.  For an inventory of up
\* to four rows in which each work unit has a single area value,
\* calcular_area_censo_inventario returns the same area for every
\* permutation of the rows, also when only some plot codes contain the
\* separator.
C29_AreaCensoSemOrdem ==
    (/\ Chamou("calcular_area_censo_inventario")
     /\ len(df_inv) <= 4
     /\ UmaAreaPorCodigo(df_inv))
      => \A p \in Permutacoes(len(df_inv)) :
            calcular_area_censo_inventario(Permutado(df_inv, p)).area = resultado.area

----------------------------------------------------------------------------
(* regenerants counted without a tag column *)

\* C30: tag-less fallback of regenerant counting.  When the inventory has no
\* tag column, the number of regenerants behind the value of
\* calcular_densidade_regenerantes is the number of rows that survive the
\* filters, whatever other columns, such as the age class idade, the
\* inventory has.
C30_SemPlaquetaContaLinhas ==
    (/\ Chamou("calcular_densidade_regenerantes")
     /\ len(df_inv) > 0 /\ len(df_carac) > 0
     /\ ~tem_coluna(df_inv, plaqueta))
      => ValeRazao(resultado.densidade, len(Filtrado), AreaAmostrada)

====
